---- MODULE Spec2Model ----
(***************************************************************************)
(* A model of vmmlib's tucker3_tensor (include/vmmlib/tucker3_tensor.hpp). *)
(*                                                                         *)
(* The containers (tensor3, matrix), the LAPACK SVD wrapper and the        *)
(* pseudo-inverse are collaborators outside the modelled sources.  Their   *)
(* results are represented symbolically: a value is a tuple whose first    *)
(* element names the operation that made it and whose other elements are   *)
(* the operands, so a value records exactly what it was computed from.     *)
(* The all-zero array of any shape is ZeroT; a product with a zero operand *)
(* is ZeroT.  Frobenius norms are multiples of one tenth (NormUnit), and   *)
(* the norm of a computed array and the success of an SVD are chosen when  *)
(* first asked for and remembered, so that the same input always gives the *)
(* same answer.                                                            *)
(***************************************************************************)
EXTENDS Integers, Sequences, FiniteSets, TLC

\* ------------------------------------------------------------------ bounds
\* Largest Frobenius norm drawn, in tenths.
MaxNorm == 6
\* How many SVD calls on a non-zero input may report failure during a run.
MaxSvdFaults == 1
\* Largest rank and largest extent of a model in the cross-model transforms.
MaxDim == 2
\* Largest subsampling factor.
MaxFactor == 2
\* How many export_to calls are made on one vector.
MaxExports == 2
\* How many times operator++ is applied to an iterator that has reached the end.
MaxPastEnd == 2
\* Largest absolute value of the element put into a Matrix4 and of a Vector4's elements.
MaxEntry == 1
\* Largest limit handed to getInverse.
MaxLimit == 2

\* --------------------------------------------------------- program constants
\* double min_improvement = 0.1, in tenths.
min_improvement == 1
\* size_t max_iterations = 3.
max_iterations == 3

VARIABLES
    _core, _u1, _u2, _u3,       \* the members of this tucker3_tensor
    pc,                         \* where the running call stands
    op,                         \* the entry point called: "hoii" or "decomposition"
    data_,                      \* the argument of the running call
    approximated_data,          \* hoii's local t3_type approximated_data
    f_norm, max_f_norm, last_f_norm, improvement, i,   \* hoii's locals
    svd_memo,                   \* SVD inputs already factored -> success
    norm_memo,                  \* arrays already measured -> Frobenius norm
    svd_faults,                 \* failures reported on non-zero inputs so far
    shape,                      \* the template arguments J1..J3, I1..I3 of this model
    other,                      \* the source model handed to a cross-model transform
    factor,                     \* the factor handed to subsampling
    start_index, end_index,     \* the row ranges handed to region_of_interest
    shared,                     \* the members of this model stored in the source model's storage
    matrix4,                    \* a Matrix4 (ml), the arguments and the results of a call on it
    iter,                       \* a tensor3 iterator and the tensor3 it runs over
    loop,                       \* the locals of the row loops of the subsampling functions
    hist                        \* observations of the run (not program state)

model_vars == <<_core, _u1, _u2, _u3>>
local_vars == <<approximated_data, f_norm, max_f_norm, last_f_norm, improvement, i>>
oracle_vars == <<svd_memo, norm_memo, svd_faults>>
vars == <<_core, _u1, _u2, _u3, pc, op, data_, approximated_data, f_norm,
          max_f_norm, last_f_norm, improvement, i, svd_memo, norm_memo,
          svd_faults, shape, other, factor, start_index, end_index, shared,
          matrix4, iter, loop, hist>>
transform_vars == <<shape, other, factor, start_index, end_index, shared>>
aux_vars == <<matrix4, iter, loop>>

\* ----------------------------------------------------- symbolic collaborators
ZeroT == <<"zero">>

\* Values a caller can hand in: the all-zero array, or an array of norm n/10.
DataValues == {ZeroT} \cup {<<"data", n>> : n \in 1..MaxNorm}
\* Values a model can hold before a call.
PriorCores == {ZeroT, <<"prior", "core">>}
PriorBases == {ZeroT, <<"prior", "basis">>}

transpose(m) == IF m = ZeroT THEN ZeroT ELSE <<"transpose", m>>

compute_pseudoinverse(m) == IF m = ZeroT THEN ZeroT ELSE <<"pinv_t", m>>

lateral_matricization(t) == IF t = ZeroT THEN ZeroT ELSE <<"lateral", t>>
frontal_matricization(t) == IF t = ZeroT THEN ZeroT ELSE <<"frontal", t>>
horizontal_matricization(t) == IF t = ZeroT THEN ZeroT ELSE <<"horizontal", t>>

multiply_lateral(t, m) ==
    IF t = ZeroT \/ m = ZeroT THEN ZeroT ELSE <<"multiply_lateral", t, m>>
multiply_frontal(t, m) ==
    IF t = ZeroT \/ m = ZeroT THEN ZeroT ELSE <<"multiply_frontal", t, m>>
multiply_horizontal(t, m) ==
    IF t = ZeroT \/ m = ZeroT THEN ZeroT ELSE <<"multiply_horizontal", t, m>>

full_tensor3_matrix_multiplication(t, a, b, c) ==
    IF t = ZeroT \/ a = ZeroT \/ b = ZeroT \/ c = ZeroT
    THEN ZeroT ELSE <<"full", t, a, b, c>>

\* The unfolding as lapack_svd leaves it on success: the left singular vectors.
svd_overwrite(m) == <<"svd_u", m>>
get_sub_matrix(m) == IF m = ZeroT THEN ZeroT ELSE <<"sub_matrix", m>>

\* May the SVD of m answer ok?  A zero unfolding cannot be factored; an input
\* seen before answers as before; otherwise failure is a fault.
SvdAnswers(m) ==
    IF m = ZeroT THEN {FALSE}
    ELSE IF m \in DOMAIN svd_memo THEN {svd_memo[m]}
    ELSE IF svd_faults < MaxSvdFaults THEN {TRUE, FALSE} ELSE {TRUE}

SvdRemember(m, ok) ==
    IF m = ZeroT \/ m \in DOMAIN svd_memo THEN svd_memo ELSE svd_memo @@ (m :> ok)

SvdFaults(m, ok) ==
    IF m # ZeroT /\ m \notin DOMAIN svd_memo /\ ~ok THEN svd_faults + 1 ELSE svd_faults

\* The values frobenius_norm() may return for t, in tenths.
NormAnswers(t) ==
    IF t = ZeroT THEN {0}
    ELSE IF t[1] = "data" THEN {t[2]}
    ELSE IF t \in DOMAIN norm_memo THEN {norm_memo[t]}
    ELSE 0..MaxNorm

NormRemember(t, n) ==
    IF t = ZeroT \/ t[1] = "data" \/ t \in DOMAIN norm_memo
    THEN norm_memo ELSE norm_memo @@ (t :> n)

\* ------------------------------------------------------------ tucker3_tensor
reconstruction(core, U1, U2, U3) ==
    full_tensor3_matrix_multiplication(core, U1, U2, U3)

\* hosvd_mode1 without the else branch: on failure U1_ keeps what it held.
hosvd_mode1_KeepsOnFailure(d, ok) ==
    IF ok THEN get_sub_matrix(svd_overwrite(lateral_matricization(d))) ELSE _u1

hosvd_mode1(d, ok) ==
    IF ok THEN get_sub_matrix(svd_overwrite(lateral_matricization(d))) ELSE ZeroT

\* hosvd_mode2 unfolding the data projected on the basis 1 just computed.
hosvd_mode2_FromBasis1(d, ok) ==
    IF ok THEN get_sub_matrix(svd_overwrite(frontal_matricization(multiply_lateral(d, _u1))))
    ELSE ZeroT

hosvd_mode2(d, ok) ==
    IF ok THEN get_sub_matrix(svd_overwrite(frontal_matricization(d))) ELSE ZeroT

\* hosvd_mode3 without the else branch: on failure U3_ keeps what it held.
hosvd_mode3_KeepsOnFailure(d, ok) ==
    IF ok THEN get_sub_matrix(svd_overwrite(horizontal_matricization(d))) ELSE _u3

hosvd_mode3(d, ok) ==
    IF ok THEN get_sub_matrix(svd_overwrite(horizontal_matricization(d))) ELSE ZeroT

\* optimize_mode1 projecting with the pseudo-inverse of its own mode's basis.
optimize_mode1_ReadsOwnBasis(d, U2_, U3_) ==
    LET u1_pinv == transpose(compute_pseudoinverse(_u1))
        u3_pinv == transpose(compute_pseudoinverse(U3_))
        tmp == multiply_frontal(d, u1_pinv)
    IN  multiply_horizontal(tmp, u3_pinv)

optimize_mode1(d, U2_, U3_) ==
    LET u2_pinv == transpose(compute_pseudoinverse(U2_))
        u3_pinv == transpose(compute_pseudoinverse(U3_))
        tmp == multiply_frontal(d, u2_pinv)
    IN  multiply_horizontal(tmp, u3_pinv)

optimize_mode2(d, U1_, U3_) ==
    LET u1_pinv == transpose(compute_pseudoinverse(U1_))
        u3_pinv == transpose(compute_pseudoinverse(U3_))
        tmp == multiply_lateral(d, u1_pinv)
    IN  multiply_horizontal(tmp, u3_pinv)

optimize_mode3(d, U1_, U2_) ==
    LET u1_pinv == transpose(compute_pseudoinverse(U1_))
        u2_pinv == transpose(compute_pseudoinverse(U2_))
        tmp == multiply_lateral(d, u1_pinv)
    IN  multiply_frontal(tmp, u2_pinv)

\* derive_core_orthogonal_bases multiplying by the bases themselves.
derive_core_orthogonal_bases_NoTranspose(d, U1_, U2_, U3_) ==
    full_tensor3_matrix_multiplication(d, U1_, U2_, U3_)

derive_core_orthogonal_bases(d, U1_, U2_, U3_) ==
    full_tensor3_matrix_multiplication(d, transpose(U1_), transpose(U2_), transpose(U3_))

\* double improvement = max_f_norm - f_norm;
InitialImprovement(mx, n) == mx - n

\* The loop's improvement measured against the data's norm, as before the loop.
Improvement_AgainstData(n, last) == max_f_norm - n

\* improvement = f_norm - last_f_norm;
Improvement(n, last) == n - last

\* The loop without its iteration cap.
LoopCondition_NoCap == improvement > min_improvement

\* The loop going on at an improvement of exactly min_improvement.
LoopCondition_AtThreshold == improvement >= min_improvement /\ i < max_iterations

\* while( improvement > min_improvement && i < max_iterations )
LoopCondition == improvement > min_improvement /\ i < max_iterations

\* ------------------------------------------------------------------- actions
\* No Matrix4, no tensor3 iterator and no row loop is in use.
Matrix4Idle == matrix4 = <<>>
IteratorIdle == iter = <<>>
LoopIdle == loop = <<>>

\* In the runs of hoii the arrays are symbolic and no transform is called.
NoShape == [J |-> <<0, 0, 0>>, I |-> <<0, 0, 0>>]
NoOther == [ranks |-> <<0, 0, 0>>, extents |-> <<0, 0, 0>>,
            core |-> <<>>, u1 |-> <<>>, u2 |-> <<>>, u3 |-> <<>>]

NoHist ==
    [ body_count |-> 0,                \* loop bodies entered in this call
      recon_norms |-> <<>>,            \* norms of the reconstructions, oldest first
      svd_mode |-> 0,                  \* the last hosvd_mode call: its mode,
      svd_input |-> ZeroT,             \*   the array handed to it,
      svd_ok |-> FALSE,                \*   what the SVD reported,
      svd_calls |-> 0,                 \*   and how many calls were made
      derived_with |-> <<ZeroT, ZeroT, ZeroT>>,  \* bases of the last core derivation
      derivations |-> 0,               \* core derivations in this call
      hoii_core |-> ZeroT,             \* the core as hoii left it
      iter_start |-> <<ZeroT, ZeroT, ZeroT>>,    \* bases when the body was entered
      checked |-> FALSE,               \* whether the build checks row indices
      exports |-> 0,                   \* export_to calls made on the sequence
      exporter |-> "none",             \* the model of the last export_to call
      first_exporter |-> "none",       \* the model of the first export_to call
      whole |-> FALSE,                 \* import_from was handed the whole sequence
      calls |-> 0,                     \* calls completed before this one
      prev_run |-> [iterations |-> 0, core |-> ZeroT,
                    bases |-> <<ZeroT, ZeroT, ZeroT>>] ]  \* how the previous call ended

Init ==
    /\ _core \in PriorCores
    /\ _u1 \in PriorBases /\ _u2 \in PriorBases /\ _u3 \in PriorBases
    /\ pc = "idle"
    /\ op = "none"
    /\ data_ = ZeroT
    /\ approximated_data = ZeroT
    /\ f_norm = 0 /\ max_f_norm = 0 /\ last_f_norm = 0 /\ improvement = 0 /\ i = 0
    /\ svd_memo = <<>>
    /\ norm_memo = <<>>
    /\ svd_faults = 0
    /\ shape = NoShape /\ other = NoOther /\ factor = 0
    /\ start_index = <<0, 0, 0>> /\ end_index = <<0, 0, 0>>
    /\ shared = {}
    /\ Matrix4Idle /\ IteratorIdle /\ LoopIdle
    /\ hist = NoHist

\* A caller enters hoii(data) or decomposition(data) (-> tucker_als -> hoii).
Call ==
    /\ pc = "idle"
    /\ \E o \in {"hoii", "decomposition"}, d \in DataValues :
          /\ op' = o
          /\ data_' = d
    /\ pc' = "hosvd1"
    /\ UNCHANGED <<model_vars, local_vars, oracle_vars, transform_vars, hist, aux_vars>>

\* The SVD inside a hosvd_mode call on the unfolding m answers ok.
SvdCall(mode, d, m, ok) ==
    /\ ok \in SvdAnswers(m)
    /\ svd_memo' = SvdRemember(m, ok)
    /\ svd_faults' = SvdFaults(m, ok)
    /\ hist' = [hist EXCEPT !.svd_mode = mode, !.svd_input = d, !.svd_ok = ok,
                            !.svd_calls = @ + 1]
    /\ UNCHANGED norm_memo

\* hosvd(): hosvd_mode1( data_, _u1 )
Hosvd1 ==
    /\ pc = "hosvd1"
    /\ \E ok \in BOOLEAN :
          /\ SvdCall(1, data_, lateral_matricization(data_), ok)
          /\ _u1' = hosvd_mode1(data_, ok)
    /\ pc' = "hosvd2"
    /\ UNCHANGED <<_core, _u2, _u3, op, data_, local_vars, transform_vars, aux_vars>>

\* hosvd(): hosvd_mode2( data_, _u2 )
Hosvd2 ==
    /\ pc = "hosvd2"
    /\ \E ok \in BOOLEAN :
          /\ SvdCall(2, data_, frontal_matricization(data_), ok)
          /\ _u2' = hosvd_mode2(data_, ok)
    /\ pc' = "hosvd3"
    /\ UNCHANGED <<_core, _u1, _u3, op, data_, local_vars, transform_vars, aux_vars>>

\* hosvd(): hosvd_mode3( data_, _u3 )
Hosvd3 ==
    /\ pc = "hosvd3"
    /\ \E ok \in BOOLEAN :
          /\ SvdCall(3, data_, horizontal_matricization(data_), ok)
          /\ _u3' = hosvd_mode3(data_, ok)
    /\ pc' = "init_norms"
    /\ UNCHANGED <<_core, _u1, _u2, op, data_, local_vars, transform_vars, aux_vars>>

\* hoii, from the first reconstruction to the loop's first test.
InitNorms ==
    /\ pc = "init_norms"
    /\ approximated_data' = reconstruction(_core, _u1, _u2, _u3)
    /\ \E n \in NormAnswers(approximated_data'), mx \in NormAnswers(data_) :
          /\ f_norm' = n
          /\ max_f_norm' = mx
          /\ last_f_norm' = n
          /\ improvement' = InitialImprovement(mx, n)
          /\ norm_memo' = NormRemember(approximated_data', n)
          /\ hist' = [hist EXCEPT !.recon_norms = Append(@, n)]
    /\ i' = 0
    /\ pc' = "loop_test"
    /\ UNCHANGED <<model_vars, op, data_, svd_memo, svd_faults, transform_vars, aux_vars>>

\* The while condition: into the body, or past the loop.
LoopTest ==
    /\ pc = "loop_test"
    /\ IF LoopCondition
       THEN /\ pc' = "opt1"
            /\ hist' = [hist EXCEPT !.body_count = @ + 1,
                                    !.iter_start = <<_u1, _u2, _u3>>]
       ELSE /\ pc' = "final_derive"
            /\ UNCHANGED hist
    /\ UNCHANGED <<model_vars, op, data_, local_vars, oracle_vars, transform_vars, aux_vars>>

\* optimize_mode1( data_, projection1, _u2, _u3 ); hosvd_mode1( projection1, _u1 )
Mode1 ==
    /\ pc = "opt1"
    /\ LET projection1 == optimize_mode1(data_, _u2, _u3) IN
       \E ok \in BOOLEAN :
          /\ SvdCall(1, projection1, lateral_matricization(projection1), ok)
          /\ _u1' = hosvd_mode1(projection1, ok)
    /\ pc' = "opt2"
    /\ UNCHANGED <<_core, _u2, _u3, op, data_, local_vars, transform_vars, aux_vars>>

\* optimize_mode2( data_, projection2, _u1, _u3 ); hosvd_mode2( projection2, _u2 )
Mode2 ==
    /\ pc = "opt2"
    /\ LET projection2 == optimize_mode2(data_, _u1, _u3) IN
       \E ok \in BOOLEAN :
          /\ SvdCall(2, projection2, frontal_matricization(projection2), ok)
          /\ _u2' = hosvd_mode2(projection2, ok)
    /\ pc' = "opt3"
    /\ UNCHANGED <<_core, _u1, _u3, op, data_, local_vars, transform_vars, aux_vars>>

\* optimize_mode3( data_, projection3, _u1, _u2 ); hosvd_mode3( projection3, _u3 )
Mode3 ==
    /\ pc = "opt3"
    /\ LET projection3 == optimize_mode3(data_, _u1, _u2) IN
       \E ok \in BOOLEAN :
          /\ SvdCall(3, projection3, horizontal_matricization(projection3), ok)
          /\ _u3' = hosvd_mode3(projection3, ok)
    /\ pc' = "derive"
    /\ UNCHANGED <<_core, _u1, _u2, op, data_, local_vars, transform_vars, aux_vars>>

\* The rest of the loop body: the self-assigning setters (no effect), the core,
\* the reconstruction, its norm, the improvement and ++i.
Derive ==
    /\ pc = "derive"
    /\ _core' = derive_core_orthogonal_bases(data_, _u1, _u2, _u3)
    /\ approximated_data' = reconstruction(_core', _u1, _u2, _u3)
    /\ \E n \in NormAnswers(approximated_data') :
          /\ f_norm' = n
          /\ improvement' = Improvement(n, last_f_norm)
          /\ last_f_norm' = n
          /\ norm_memo' = NormRemember(approximated_data', n)
          /\ hist' = [hist EXCEPT !.recon_norms = Append(@, n),
                                  !.derived_with = <<_u1, _u2, _u3>>,
                                  !.derivations = @ + 1]
    /\ i' = i + 1
    /\ pc' = "loop_test"
    /\ UNCHANGED <<_u1, _u2, _u3, op, data_, max_f_norm, svd_memo, svd_faults, transform_vars, aux_vars>>

\* hoii's derive_core_orthogonal_bases after the loop; hoii returns.
FinalDerive ==
    /\ pc = "final_derive"
    /\ _core' = derive_core_orthogonal_bases(data_, _u1, _u2, _u3)
    /\ hist' = [hist EXCEPT !.derived_with = <<_u1, _u2, _u3>>,
                            !.derivations = @ + 1,
                            !.hoii_core = _core']
    /\ pc' = IF op = "decomposition" THEN "als_derive" ELSE "returned"
    /\ UNCHANGED <<_u1, _u2, _u3, op, data_, local_vars, oracle_vars, transform_vars, aux_vars>>

\* tucker_als's derive_core_orthogonal_bases after hoii; decomposition returns.
AlsDerive ==
    /\ pc = "als_derive"
    /\ _core' = derive_core_orthogonal_bases(data_, _u1, _u2, _u3)
    /\ hist' = [hist EXCEPT !.derived_with = <<_u1, _u2, _u3>>,
                            !.derivations = @ + 1]
    /\ pc' = "returned"
    /\ UNCHANGED <<_u1, _u2, _u3, op, data_, local_vars, oracle_vars, transform_vars, aux_vars>>

Next ==
    \/ Call
    \/ Hosvd1 \/ Hosvd2 \/ Hosvd3
    \/ InitNorms
    \/ LoopTest
    \/ Mode1 \/ Mode2 \/ Mode3
    \/ Derive
    \/ FinalDerive
    \/ AlsDerive

Spec == Init /\ [][Next]_vars

\* The caller, once decomposition has returned, calls it again with the same
\* data on the model as the first call left it.
Recall ==
    /\ pc = "returned"
    /\ op = "decomposition"
    /\ hist.calls = 0
    /\ hist' = [NoHist EXCEPT !.calls = 1,
                              !.prev_run = [iterations |-> hist.body_count,
                                            core |-> _core,
                                            bases |-> <<_u1, _u2, _u3>>]]
    /\ pc' = "hosvd1"
    /\ UNCHANGED <<model_vars, op, data_, local_vars, oracle_vars, transform_vars, aux_vars>>

NextTwice == Next \/ Recall

\* The first call finds a model holding some bases and either core; in these
\* runs no SVD fails on a non-zero unfolding.
InitTwice ==
    /\ _core \in PriorCores
    /\ _u1 = <<"prior", "basis">> /\ _u2 = <<"prior", "basis">> /\ _u3 = <<"prior", "basis">>
    /\ pc = "idle"
    /\ op = "none"
    /\ data_ = ZeroT
    /\ approximated_data = ZeroT
    /\ f_norm = 0 /\ max_f_norm = 0 /\ last_f_norm = 0 /\ improvement = 0 /\ i = 0
    /\ svd_memo = <<>>
    /\ norm_memo = <<>>
    /\ svd_faults = MaxSvdFaults
    /\ shape = NoShape /\ other = NoOther /\ factor = 0
    /\ start_index = <<0, 0, 0>> /\ end_index = <<0, 0, 0>>
    /\ shared = {}
    /\ Matrix4Idle /\ IteratorIdle /\ LoopIdle
    /\ hist = NoHist

SpecTwice == InitTwice /\ [][NextTwice]_vars

\* ------------------------------------------------------ cross-model transforms
\* The build modelled has its assertions compiled in (NDEBUG is not defined).
\* Here the arrays are concrete: a matrix is a function row -> column -> element
\* and a tensor3 a function i1 -> i2 -> i3 -> element, indices from 0.  Every
\* element of a source model differs from every other and from every element
\* the target holds before the call, so a copy shows where it came from.
Dim == 1..MaxDim
Triples == Dim \X Dim \X Dim
Factors == 1..MaxFactor

SourceBasis(k, rows, cols) ==
    [r \in 0..rows - 1 |-> [c \in 0..cols - 1 |-> 100 * k + 10 * r + c]]
SourceCore(R) ==
    [a \in 0..R[1] - 1 |-> [b \in 0..R[2] - 1 |-> [c \in 0..R[3] - 1 |->
        1000 + 100 * a + 10 * b + c]]]
PriorBasis(k, rows, cols) ==
    [r \in 0..rows - 1 |-> [c \in 0..cols - 1 |-> 0 - (100 * k + 10 * r + c)]]
PriorCore(R) ==
    [a \in 0..R[1] - 1 |-> [b \in 0..R[2] - 1 |-> [c \in 0..R[3] - 1 |->
        0 - (1000 + 100 * a + 10 * b + c)]]]

\* tucker3_tensor< R1, R2, R3, E1, E2, E3 > as a transform's argument.
SourceModel(R, E) ==
    [ranks |-> R, extents |-> E, core |-> SourceCore(R),
     u1 |-> SourceBasis(1, E[1], R[1]),
     u2 |-> SourceBasis(2, E[2], R[2]),
     u3 |-> SourceBasis(3, E[3], R[3])]

\* This model before a transform.
PriorModel(J, I) ==
    [core |-> PriorCore(J),
     u1 |-> PriorBasis(1, I[1], J[1]),
     u2 |-> PriorBasis(2, I[2], J[2]),
     u3 |-> PriorBasis(3, I[3], J[3])]

This == [core |-> _core, u1 |-> _u1, u2 |-> _u2, u3 |-> _u3]

get_row(m, r) == m[r]
set_row(m, r, row) == [m EXCEPT ![r] = row]
get_column(m, c) == [r \in DOMAIN m |-> m[r][c]]
set_column(m, c, col) == [r \in DOMAIN m |-> [m[r] EXCEPT ![c] = col[r]]]

\* The assignment of get_core as it would be if the argument came to refer to
\* the source's core.
get_core_ByReference(o) == [value |-> o.core, shared |-> {"core"}]

\* void get_core( t3_core_type& data_ ) const { data_ = _core; }: the argument
\* receives the elements; it shares no storage with the model asked.
get_core(o) == [value |-> o.core, shared |-> {}]

\* The column loop leaving the last of the Jk columns out.
reduce_columns_SkipsLast(dst, src, j, Jk) ==
    [r \in DOMAIN dst |-> [c \in DOMAIN dst[r] |->
        IF j <= c /\ c < Jk - 1 THEN src[r][c] ELSE dst[r][c]]]

\* for( size_t j = 0; j < Jk; ++j ) _u.set_column( j, u.get_column( j ));
RECURSIVE reduce_columns(_, _, _, _)
reduce_columns(dst, src, j, Jk) ==
    IF j < Jk
    THEN reduce_columns(set_column(dst, j, get_column(src, j)), src, j + 1, Jk)
    ELSE dst

\* The three loops over j3, j1, j2 assigning _core.at( j1, j2, j3 ).
reduce_core(dst, other_core, J) ==
    [j1 \in DOMAIN dst |-> [j2 \in DOMAIN dst[j1] |-> [j3 \in DOMAIN dst[j1][j2] |->
        IF j1 < J[1] /\ j2 < J[2] /\ j3 < J[3]
        THEN other_core[j1][j2][j3] ELSE dst[j1][j2][j3]]]]

\* reduce_ranks( other ) on a model self of ranks J from a model of ranks K.
reduce_ranks(J, K, self, o) ==
    IF ~(J[1] <= K[1] /\ J[2] <= K[2] /\ J[3] <= K[3])
    THEN [status |-> "assert_failed", core |-> self.core, shared |-> {},
          u1 |-> self.u1, u2 |-> self.u2, u3 |-> self.u3]
    ELSE [status |-> "returned",
          u1 |-> reduce_columns(self.u1, o.u1, 0, J[1]),
          u2 |-> reduce_columns(self.u2, o.u2, 0, J[2]),
          u3 |-> reduce_columns(self.u3, o.u3, 0, J[3]),
          core |-> reduce_core(self.core, o.core, J), shared |-> {}]

\* for( size_t i1 = 0, i = 0; i1 < K; i1 += factor, ++i )
\*     _u.set_row( i, u.get_row( i1 ));
\* (ii is the loop's i) on a target of Ik rows: the matrix after the rows that exist were written,
\* and whether a row index beyond the target was used (oor).
RECURSIVE subsample_rows(_, _, _, _, _, _, _)
subsample_rows(dst, src, i1, ii, K, Ik, f) ==
    IF i1 < K
    THEN IF ii < Ik
         THEN subsample_rows(set_row(dst, ii, get_row(src, i1)), src, i1 + f, ii + 1, K, Ik, f)
         ELSE [m |-> dst, oor |-> TRUE]
    ELSE [m |-> dst, oor |-> FALSE]

\* subsampling( other, factor ) on a model self of extents I from a model of
\* extents K.  A row index beyond the target is a contract violation: a build
\* that checks indices stops there (checked), another writes outside the
\* matrix and goes on.
subsampling(I, K, self, o, f, checked) ==
    IF ~(I[1] <= K[1] /\ I[1] <= K[2] /\ I[1] <= K[3])
    THEN [status |-> "assert_failed", core |-> self.core, shared |-> {},
          u1 |-> self.u1, u2 |-> self.u2, u3 |-> self.u3]
    ELSE
      LET r1 == subsample_rows(self.u1, o.u1, 0, 0, K[1], I[1], f)
          r2 == subsample_rows(self.u2, o.u2, 0, 0, K[2], I[2], f)
          r3 == subsample_rows(self.u3, o.u3, 0, 0, K[3], I[3], f)
      IN  IF checked /\ r1.oor
          THEN [status |-> "out_of_range", core |-> self.core, shared |-> {},
                u1 |-> r1.m, u2 |-> self.u2, u3 |-> self.u3]
          ELSE IF checked /\ r2.oor
          THEN [status |-> "out_of_range", core |-> self.core, shared |-> {},
                u1 |-> r1.m, u2 |-> r2.m, u3 |-> self.u3]
          ELSE IF checked /\ r3.oor
          THEN [status |-> "out_of_range", core |-> self.core, shared |-> {},
                u1 |-> r1.m, u2 |-> r2.m, u3 |-> r3.m]
          ELSE [status |-> IF r1.oor \/ r2.oor \/ r3.oor
                           THEN "wrote_outside" ELSE "returned",
                core |-> get_core(o).value, shared |-> get_core(o).shared, u1 |-> r1.m, u2 |-> r2.m, u3 |-> r3.m]

\* vector += vector and vector /= T, element by element.  The elements drawn
\* for a source model make every sum of n consecutive rows divisible by n, so
\* the quotient is exact.
add_rows(a, b) == [c \in DOMAIN a |-> a[c] + b[c]]
divide_row(a, n) == [c \in DOMAIN a |-> a[c] \div n]

\* for( size_t j = i1+1; (j < (factor+i1)) & (j < K); ++j, ++num_items_averaged )
\*     tmp_row += u.get_row( j );
\* from tmp_row and num_items_averaged as they stand: both when the loop ends.
RECURSIVE accumulate_rows(_, _, _, _, _, _, _)
accumulate_rows(src, tmp_row, num_items_averaged, j, i1, K, f) ==
    IF j < f + i1 /\ j < K
    THEN accumulate_rows(src, add_rows(tmp_row, get_row(src, j)),
                         num_items_averaged + 1, j + 1, i1, K, f)
    ELSE [tmp_row |-> tmp_row, num_items_averaged |-> num_items_averaged]

\* tmp_row = u.get_row( i1 ); num_items_averaged = 1; the inner loop;
\* tmp_row /= num_items_averaged;
averaged_row(src, i1, K, f) ==
    LET acc == accumulate_rows(src, get_row(src, i1), 1, i1 + 1, i1, K, f)
    IN  divide_row(acc.tmp_row, acc.num_items_averaged)

\* The mode-1 loop of subsampling_on_average:
\* for( size_t i1 = 0, i = 0; i1 < K1; i1 += factor, ++i )
\*     { tmp_row = the average; _u1.set_row( i, tmp_row ); }
RECURSIVE average_rows(_, _, _, _, _, _, _)
average_rows(dst, src, i1, ii, K, Ik, f) ==
    IF i1 < K
    THEN IF ii < Ik
         THEN average_rows(set_row(dst, ii, averaged_row(src, i1, K, f)),
                           src, i1 + f, ii + 1, K, Ik, f)
         ELSE [m |-> dst, oor |-> TRUE]
    ELSE [m |-> dst, oor |-> FALSE]

\* The loop of modes 2 and 3 as it would be if it wrote tmp_row as mode 1 does.
unaveraged_rows_WritesAverage(dst, src, i1, ii, K, Ik, f) ==
    average_rows(dst, src, i1, ii, K, Ik, f)

\* The loops of modes 2 and 3 of subsampling_on_average: tmp_row is computed
\* as in mode 1 and then left unused,
\*     _u2.set_row( i, u2.get_row( i2 ));
RECURSIVE unaveraged_rows(_, _, _, _, _, _, _)
unaveraged_rows(dst, src, i1, ii, K, Ik, f) ==
    IF i1 < K
    THEN IF ii < Ik
         THEN LET tmp_row == averaged_row(src, i1, K, f)
              IN  unaveraged_rows(set_row(dst, ii, get_row(src, i1)),
                                  src, i1 + f, ii + 1, K, Ik, f)
         ELSE [m |-> dst, oor |-> TRUE]
    ELSE [m |-> dst, oor |-> FALSE]

\* subsampling_on_average( other, factor ), as subsampling above.
subsampling_on_average(I, K, self, o, f, checked) ==
    IF ~(I[1] <= K[1] /\ I[1] <= K[2] /\ I[1] <= K[3])
    THEN [status |-> "assert_failed", core |-> self.core, shared |-> {},
          u1 |-> self.u1, u2 |-> self.u2, u3 |-> self.u3]
    ELSE
      LET r1 == average_rows(self.u1, o.u1, 0, 0, K[1], I[1], f)
          r2 == unaveraged_rows(self.u2, o.u2, 0, 0, K[2], I[2], f)
          r3 == unaveraged_rows(self.u3, o.u3, 0, 0, K[3], I[3], f)
      IN  IF checked /\ r1.oor
          THEN [status |-> "out_of_range", core |-> self.core, shared |-> {},
                u1 |-> r1.m, u2 |-> self.u2, u3 |-> self.u3]
          ELSE IF checked /\ r2.oor
          THEN [status |-> "out_of_range", core |-> self.core, shared |-> {},
                u1 |-> r1.m, u2 |-> r2.m, u3 |-> self.u3]
          ELSE IF checked /\ r3.oor
          THEN [status |-> "out_of_range", core |-> self.core, shared |-> {},
                u1 |-> r1.m, u2 |-> r2.m, u3 |-> r3.m]
          ELSE [status |-> IF r1.oor \/ r2.oor \/ r3.oor
                           THEN "wrote_outside" ELSE "returned",
                core |-> get_core(o).value, shared |-> get_core(o).shared, u1 |-> r1.m, u2 |-> r2.m, u3 |-> r3.m]

\* for( size_t i1 = start_index,  i = 0; i1 < end_index; ++i1, ++i )
\*     _u.set_row( i, u.get_row( i1 ));
\* from i1 and i (ii) as they stand, on a target of Ik rows.
RECURSIVE region_rows(_, _, _, _, _, _)
region_rows(dst, src, i1, ii, end, Ik) ==
    IF i1 < end
    THEN IF ii < Ik
         THEN region_rows(set_row(dst, ii, get_row(src, i1)), src, i1 + 1, ii + 1, end, Ik)
         ELSE [m |-> dst, oor |-> TRUE]
    ELSE [m |-> dst, oor |-> FALSE]

\* region_of_interest( other, start_index1, end_index1, ..., end_index3 ) on a
\* model self of extents I from a model of extents K; start and end are the
\* triples of start and end indices.
region_of_interest(I, K, self, o, start, end, checked) ==
    IF ~(/\ I[1] <= K[1] /\ I[1] <= K[2] /\ I[1] <= K[3]
         /\ start[1] < end[1] /\ start[2] < end[2] /\ start[3] < end[3]
         /\ end[1] < K[1] /\ end[2] < K[2] /\ end[3] < K[3])
    THEN [status |-> "assert_failed", core |-> self.core, shared |-> {},
          u1 |-> self.u1, u2 |-> self.u2, u3 |-> self.u3]
    ELSE
      LET r1 == region_rows(self.u1, o.u1, start[1], 0, end[1], I[1])
          r2 == region_rows(self.u2, o.u2, start[2], 0, end[2], I[2])
          r3 == region_rows(self.u3, o.u3, start[3], 0, end[3], I[3])
      IN  IF checked /\ r1.oor
          THEN [status |-> "out_of_range", core |-> self.core, shared |-> {},
                u1 |-> r1.m, u2 |-> self.u2, u3 |-> self.u3]
          ELSE IF checked /\ r2.oor
          THEN [status |-> "out_of_range", core |-> self.core, shared |-> {},
                u1 |-> r1.m, u2 |-> r2.m, u3 |-> self.u3]
          ELSE IF checked /\ r3.oor
          THEN [status |-> "out_of_range", core |-> self.core, shared |-> {},
                u1 |-> r1.m, u2 |-> r2.m, u3 |-> r3.m]
          ELSE [status |-> IF r1.oor \/ r2.oor \/ r3.oor
                           THEN "wrote_outside" ELSE "returned",
                core |-> get_core(o).value, shared |-> get_core(o).shared, u1 |-> r1.m, u2 |-> r2.m, u3 |-> r3.m]

\* A model of some ranks and extents, holding what it held before the call.
InitTransforms ==
    /\ shape \in [J : Triples, I : Triples]
    /\ _core = PriorModel(shape.J, shape.I).core
    /\ _u1 = PriorModel(shape.J, shape.I).u1
    /\ _u2 = PriorModel(shape.J, shape.I).u2
    /\ _u3 = PriorModel(shape.J, shape.I).u3
    /\ other = NoOther
    /\ factor = 0
    /\ start_index = <<0, 0, 0>> /\ end_index = <<0, 0, 0>>
    /\ shared = {}
    /\ Matrix4Idle /\ IteratorIdle /\ LoopIdle
    /\ pc = "idle"
    /\ op = "none"
    /\ data_ = ZeroT
    /\ approximated_data = ZeroT
    /\ f_norm = 0 /\ max_f_norm = 0 /\ last_f_norm = 0 /\ improvement = 0 /\ i = 0
    /\ svd_memo = <<>>
    /\ norm_memo = <<>>
    /\ svd_faults = 0
    /\ hist = NoHist

Become(r) ==
    /\ _core' = r.core
    /\ _u1' = r.u1
    /\ _u2' = r.u2
    /\ _u3' = r.u3
    /\ shared' = r.shared
    /\ pc' = r.status

\* this.reduce_ranks( other ), other of ranks K and of this model's extents.
ReduceRanks ==
    /\ pc = "idle"
    /\ \E K \in Triples :
          LET o == SourceModel(K, shape.I) IN
          /\ other' = o
          /\ Become(reduce_ranks(shape.J, K, This, o))
    /\ op' = "reduce_ranks"
    /\ UNCHANGED <<data_, local_vars, oracle_vars, shape, factor, start_index, end_index, hist, aux_vars>>

\* this.subsampling( other, factor ), other of extents K and of this model's ranks.
Subsampling ==
    /\ pc = "idle"
    /\ \E K \in Triples, f \in Factors, checked \in BOOLEAN :
          LET o == SourceModel(shape.J, K) IN
          /\ other' = o
          /\ factor' = f
          /\ hist' = [hist EXCEPT !.checked = checked]
          /\ Become(subsampling(shape.I, K, This, o, f, checked))
    /\ op' = "subsampling"
    /\ UNCHANGED <<data_, local_vars, oracle_vars, shape, start_index, end_index, aux_vars>>

\* this.subsampling_on_average( other, factor ), other as for subsampling.
SubsamplingOnAverage ==
    /\ pc = "idle"
    /\ \E K \in Triples, f \in Factors, checked \in BOOLEAN :
          LET o == SourceModel(shape.J, K) IN
          /\ other' = o
          /\ factor' = f
          /\ hist' = [hist EXCEPT !.checked = checked]
          /\ Become(subsampling_on_average(shape.I, K, This, o, f, checked))
    /\ op' = "subsampling_on_average"
    /\ UNCHANGED <<data_, local_vars, oracle_vars, shape, start_index, end_index, aux_vars>>

\* The cross-model transforms, and the calls that give the source model new
\* contents afterwards.
TransformOps == {"reduce_ranks", "subsampling", "subsampling_on_average", "region_of_interest"}
SourceOps == {"other.set_core", "other.set_u1", "other.set_u2", "other.set_u3",
              "other.decomposition", "other.import_from"}
\* What each of them assigns.
Assigns(how) == CASE how = "other.set_core" -> {"core"}
                  [] how = "other.set_u1" -> {"u1"}
                  [] how = "other.set_u2" -> {"u2"}
                  [] how = "other.set_u3" -> {"u3"}
                  [] OTHER -> {"core", "u1", "u2", "u3"}
\* New contents for a basis and for a core: no element stays what it was.
NewBasis(m) == [r \in DOMAIN m |-> [c \in DOMAIN m[r] |-> m[r][c] + 5000]]
NewCore(t) == [a \in DOMAIN t |-> [b \in DOMAIN t[a] |-> [c \in DOMAIN t[a][b] |->
                  t[a][b][c] + 5000]]]

\* After a transform returned, the caller gives the source model new contents
\* with set_core, set_u1, set_u2, set_u3, decomposition or import_from.  A member
\* of this model stored in the source's storage changes with it.
SourceModified ==
    /\ pc = "returned"
    /\ op \in TransformOps
    /\ \E how \in SourceOps :
          LET o2 == [other EXCEPT
                        !.core = IF "core" \in Assigns(how) THEN NewCore(@) ELSE @,
                        !.u1 = IF "u1" \in Assigns(how) THEN NewBasis(@) ELSE @,
                        !.u2 = IF "u2" \in Assigns(how) THEN NewBasis(@) ELSE @,
                        !.u3 = IF "u3" \in Assigns(how) THEN NewBasis(@) ELSE @]
              seen == shared \cap Assigns(how)
          IN  /\ other' = o2
              /\ op' = how
              /\ _core' = IF "core" \in seen THEN o2.core ELSE _core
              /\ _u1' = IF "u1" \in seen THEN o2.u1 ELSE _u1
              /\ _u2' = IF "u2" \in seen THEN o2.u2 ELSE _u2
              /\ _u3' = IF "u3" \in seen THEN o2.u3 ELSE _u3
    /\ UNCHANGED <<pc, data_, local_vars, oracle_vars, shape, factor, start_index,
                   end_index, shared, hist, aux_vars>>

NextTransforms ==
    \/ ReduceRanks
    \/ Subsampling
    \/ SubsamplingOnAverage
    \/ SourceModified

SpecTransforms == InitTransforms /\ [][NextTransforms]_vars

\* The start and end indices a caller hands to region_of_interest.
StartIndices == (0..MaxDim - 1) \X (0..MaxDim - 1) \X (0..MaxDim - 1)
EndIndices == (0..MaxDim) \X (0..MaxDim) \X (0..MaxDim)
\* The extents of the models region_of_interest reads: an end index below the
\* extent leaves room for as many rows as the largest target has, and more.
RegionSources == (1..MaxDim + 1) \X (1..MaxDim + 1) \X (1..MaxDim + 1)

\* this.region_of_interest( other, ... ), other of extents K and of this
\* model's ranks.
RegionOfInterest ==
    /\ pc = "idle"
    /\ \E K \in RegionSources, start \in StartIndices, end \in EndIndices, checked \in BOOLEAN :
          LET o == SourceModel(shape.J, K) IN
          /\ other' = o
          /\ start_index' = start
          /\ end_index' = end
          /\ hist' = [hist EXCEPT !.checked = checked]
          /\ Become(region_of_interest(shape.I, K, This, o, start, end, checked))
    /\ op' = "region_of_interest"
    /\ UNCHANGED <<data_, local_vars, oracle_vars, shape, factor, aux_vars>>

\* The targets of region_of_interest: the ranks are the same in every mode.
InitRegion ==
    /\ InitTransforms
    /\ shape.J[1] = shape.J[2] /\ shape.J[2] = shape.J[3]

NextRegion ==
    \/ RegionOfInterest
    \/ SourceModified

SpecRegion == InitRegion /\ [][NextRegion]_vars

\* ------------------------------------------------------- flat export / import
\* The std::vector< T > is a sequence; index i of the vector is element i + 1.
\* A matrix iterator runs from begin() to end() over the rows * cols elements
\* of a matrix in column-major order: the element at step p (from 0) is in row
\* p mod rows and column p div rows.
matrix_at(m, rows, p) == m[p % rows][p \div rows]
matrix_put(m, rows, p, v) == [m EXCEPT ![p % rows][p \div rows] = v]

\* tensor3_iterator / tensor3_const_iterator.  A matrix iterator into a frontal
\* slice is the pair of the slice and the step within it.
\* tensor3_const_iterator( t_, true )
tensor3_begin(R) ==
    [matrix_index |-> 0,
     matrix_it |-> [slice |-> 0, step |-> 0],
     matrix_it_end |-> [slice |-> 0, step |-> R[1] * R[2]]]
\* tensor3_const_iterator( t_, false )
tensor3_end(R) ==
    [matrix_index |-> R[3] - 1,
     matrix_it |-> [slice |-> R[3] - 1, step |-> R[1] * R[2]],
     matrix_it_end |-> [slice |-> R[3] - 1, step |-> 0]]
\* operator!=
tensor3_differ(a, b) == a.matrix_it # b.matrix_it
\* operator++ as it would be if it never went on to the next frontal slice.
tensor3_increment_StaysInSlice(it, R) ==
    IF it.matrix_it # it.matrix_it_end
    THEN [it EXCEPT !.matrix_it.step = @ + 1]
    ELSE it

\* operator++
tensor3_increment(it, R) ==
    LET stepped == IF it.matrix_it # it.matrix_it_end
                   THEN [it EXCEPT !.matrix_it.step = @ + 1]
                   ELSE it
    IN  IF stepped.matrix_it = stepped.matrix_it_end /\ stepped.matrix_index + 1 < R[3]
        THEN [matrix_index |-> stepped.matrix_index + 1,
              matrix_it |-> [slice |-> stepped.matrix_index + 1, step |-> 0],
              matrix_it_end |-> [slice |-> stepped.matrix_index + 1, step |-> R[1] * R[2]]]
        ELSE stepped
\* operator*: the element of the frontal slice the matrix iterator stands on.
tensor3_at(t, R, it) ==
    t[it.matrix_it.step % R[1]][it.matrix_it.step \div R[1]][it.matrix_it.slice]
tensor3_put(t, R, it, v) ==
    [t EXCEPT ![it.matrix_it.step % R[1]][it.matrix_it.step \div R[1]][it.matrix_it.slice] = v]

\* for( ; it != it_end; ++it ) data_.push_back( *it );   over a matrix
RECURSIVE export_matrix(_, _, _, _, _)
export_matrix(m, rows, cols, p, seq) ==
    IF p # rows * cols
    THEN export_matrix(m, rows, cols, p + 1, Append(seq, matrix_at(m, rows, p)))
    ELSE seq

\* for( ; it_core != it_core_end; ++it_core ) data_.push_back( *it_core );
RECURSIVE export_core(_, _, _, _)
export_core(t, R, it, seq) ==
    IF tensor3_differ(it, tensor3_end(R))
    THEN export_core(t, R, tensor3_increment(it, R), Append(seq, tensor3_at(t, R, it)))
    ELSE seq

\* The four loops with basis 3 pushed before basis 2.
export_to_Basis3First(self, J, I, seq) ==
    export_core(self.core, J, tensor3_begin(J),
        export_matrix(self.u2, I[2], J[2], 0,
            export_matrix(self.u3, I[3], J[3], 0,
                export_matrix(self.u1, I[1], J[1], 0, seq))))

\* export_to as it would be if it emptied the vector first.
export_to_Overwrites(self, J, I, seq) ==
    export_core(self.core, J, tensor3_begin(J),
        export_matrix(self.u3, I[3], J[3], 0,
            export_matrix(self.u2, I[2], J[2], 0,
                export_matrix(self.u1, I[1], J[1], 0, <<>>))))

\* export_to( data_ ) of a model self of ranks J and extents I: the vector after it.
export_to(self, J, I, seq) ==
    export_core(self.core, J, tensor3_begin(J),
        export_matrix(self.u3, I[3], J[3], 0,
            export_matrix(self.u2, I[2], J[2], 0,
                export_matrix(self.u1, I[1], J[1], 0, seq))))

\* The loop over a matrix whose iterator runs row by row.
import_matrix_RowMajor(m, rows, cols, p, ii, seq) ==
    [m |-> [r \in DOMAIN m |-> [c \in DOMAIN m[r] |->
               IF ii + r * cols + c < Len(seq) THEN seq[ii + r * cols + c + 1] ELSE m[r][c]]],
     i |-> IF ii + rows * cols <= Len(seq) THEN ii + rows * cols ELSE Len(seq),
     oor |-> ii + rows * cols > Len(seq)]

\* for( ; it != it_end; ++it, ++i ) *it = data_.at(i);   over a matrix, from
\* step p and index ii (the function's i): the matrix, the index reached and
\* whether data_.at threw std::out_of_range.
RECURSIVE import_matrix(_, _, _, _, _, _)
import_matrix(m, rows, cols, p, ii, seq) ==
    IF p # rows * cols
    THEN IF ii < Len(seq)
         THEN import_matrix(matrix_put(m, rows, p, seq[ii + 1]), rows, cols, p + 1, ii + 1, seq)
         ELSE [m |-> m, i |-> ii, oor |-> TRUE]
    ELSE [m |-> m, i |-> ii, oor |-> FALSE]

\* The loop as it would be if reading past the end of the vector did not throw
\* and left the element as it was.
import_core_NeverThrows(t, R, it, ii, seq) ==
    [m |-> [a \in DOMAIN t |-> [b \in DOMAIN t[a] |-> [c \in DOMAIN t[a][b] |->
               IF ii + c * R[1] * R[2] + b * R[1] + a < Len(seq)
               THEN seq[ii + c * R[1] * R[2] + b * R[1] + a + 1] ELSE t[a][b][c]]]],
     i |-> ii + R[1] * R[2] * R[3],
     oor |-> FALSE]

\* for( ; it_core != it_core_end; ++it_core, ++i ) *it_core = data_.at(i);
RECURSIVE import_core(_, _, _, _, _)
import_core(t, R, it, ii, seq) ==
    IF tensor3_differ(it, tensor3_end(R))
    THEN IF ii < Len(seq)
         THEN import_core(tensor3_put(t, R, it, seq[ii + 1]), R,
                          tensor3_increment(it, R), ii + 1, seq)
         ELSE [m |-> t, i |-> ii, oor |-> TRUE]
    ELSE [m |-> t, i |-> ii, oor |-> FALSE]

\* import_from as it would be if a failure left the model as it was.
import_from_Atomic(self, J, I, seq) ==
    LET r1 == import_matrix(self.u1, I[1], J[1], 0, 0, seq)
        r2 == import_matrix(self.u2, I[2], J[2], 0, r1.i, seq)
        r3 == import_matrix(self.u3, I[3], J[3], 0, r2.i, seq)
        rc == import_core(self.core, J, tensor3_begin(J), r3.i, seq)
    IN  IF r1.oor \/ r2.oor \/ r3.oor \/ rc.oor
        THEN [status |-> "out_of_range", core |-> self.core, shared |-> {},
              u1 |-> self.u1, u2 |-> self.u2, u3 |-> self.u3]
        ELSE [status |-> "returned",
              core |-> rc.m, shared |-> {}, u1 |-> r1.m, u2 |-> r2.m, u3 |-> r3.m]

\* import_from( data_ ) on a model self of ranks J and extents I.  The
\* exception of data_.at leaves the function at once; what was assigned stays.
import_from(self, J, I, seq) ==
    LET r1 == import_matrix(self.u1, I[1], J[1], 0, 0, seq)
        r2 == import_matrix(self.u2, I[2], J[2], 0, r1.i, seq)
        r3 == import_matrix(self.u3, I[3], J[3], 0, r2.i, seq)
        rc == import_core(self.core, J, tensor3_begin(J), r3.i, seq)
    IN  IF r1.oor
        THEN [status |-> "out_of_range", core |-> self.core, shared |-> {},
              u1 |-> r1.m, u2 |-> self.u2, u3 |-> self.u3]
        ELSE IF r2.oor
        THEN [status |-> "out_of_range", core |-> self.core, shared |-> {},
              u1 |-> r1.m, u2 |-> r2.m, u3 |-> self.u3]
        ELSE IF r3.oor
        THEN [status |-> "out_of_range", core |-> self.core, shared |-> {},
              u1 |-> r1.m, u2 |-> r2.m, u3 |-> r3.m]
        ELSE [status |-> IF rc.oor THEN "out_of_range" ELSE "returned",
              core |-> rc.m, shared |-> {}, u1 |-> r1.m, u2 |-> r2.m, u3 |-> r3.m]

\* Two models of one shape: this one, holding what it was constructed with, and
\* another (other) holding other values; an empty vector.
InitSerial ==
    /\ shape \in [J : Triples, I : Triples]
    /\ shape.I[1] = shape.I[2] /\ shape.I[2] = shape.I[3]
    /\ _core = PriorModel(shape.J, shape.I).core
    /\ _u1 = PriorModel(shape.J, shape.I).u1
    /\ _u2 = PriorModel(shape.J, shape.I).u2
    /\ _u3 = PriorModel(shape.J, shape.I).u3
    /\ other = SourceModel(shape.J, shape.I)
    /\ data_ = <<>>
    /\ factor = 0
    /\ start_index = <<0, 0, 0>> /\ end_index = <<0, 0, 0>>
    /\ shared = {}
    /\ Matrix4Idle /\ IteratorIdle /\ LoopIdle
    /\ pc = "idle"
    /\ op = "none"
    /\ approximated_data = ZeroT
    /\ f_norm = 0 /\ max_f_norm = 0 /\ last_f_norm = 0 /\ improvement = 0 /\ i = 0
    /\ svd_memo = <<>>
    /\ norm_memo = <<>>
    /\ svd_faults = 0
    /\ hist = NoHist

\* model.export_to( data_ ) for this model or the other one, on the same vector.
ExportTo ==
    /\ pc = "idle"
    /\ hist.exports < MaxExports
    /\ \E who \in {"this", "other"} :
          /\ data_' = export_to(IF who = "this" THEN This ELSE other,
                                shape.J, shape.I, data_)
          /\ hist' = [hist EXCEPT !.exports = @ + 1, !.exporter = who,
                                  !.first_exporter = IF hist.exports = 0 THEN who ELSE @]
    /\ op' = "export_to"
    /\ UNCHANGED <<model_vars, pc, local_vars, oracle_vars, shape, other, factor,
                   start_index, end_index, shared, aux_vars>>

\* this.import_from( data_ ) with a vector holding the first L elements of
\* what was exported.
ImportFrom ==
    /\ pc = "idle"
    /\ \E L \in 0..Len(data_) :
          LET seq == SubSeq(data_, 1, L) IN
          /\ hist' = [hist EXCEPT !.whole = (L = Len(data_))]
          /\ data_' = seq
          /\ Become(import_from(This, shape.J, shape.I, seq))
    /\ op' = "import_from"
    /\ UNCHANGED <<local_vars, oracle_vars, shape, other, factor, start_index, end_index, aux_vars>>

NextSerial ==
    \/ ExportTo
    \/ ImportFrom

SpecSerial == InitSerial /\ [][NextSerial]_vars

\* ------------------------------------------- the row loops, one step at a time
\* subsampling and subsampling_on_average again, each evaluation of a loop
\* condition a step.  loop holds the locals of the running call: the mode whose
\* loop runs, i1 (i2, i3), i, j, num_items_averaged, tmp_row, where control is
\* (at) and whether a row index beyond the target was used (oor).
LoopFactors == 0..MaxFactor

\* i1 += factor as it would be if it added one less.
next_index_Stalls(i1, f) == i1 + f - 1

\* i1 += factor
next_index(i1, f) == i1 + f

\* (j < (factor+i1)) & (j < K)
inner_condition(j, i1, K, f) == (j < f + i1) /\ (j < K)

SourceRows(k) == IF k = 1 THEN other.u1 ELSE IF k = 2 THEN other.u2 ELSE other.u3

\* _u<k>.set_row( i, row ) in the running call: on a row the target has; on
\* another, a build that checks indices stops, another goes on.
LoopSetRow(k, row) ==
    IF loop.i < shape.I[k]
    THEN /\ _u1' = IF k = 1 THEN set_row(_u1, loop.i, row) ELSE _u1
         /\ _u2' = IF k = 2 THEN set_row(_u2, loop.i, row) ELSE _u2
         /\ _u3' = IF k = 3 THEN set_row(_u3, loop.i, row) ELSE _u3
         /\ pc' = pc
         /\ loop' = [loop EXCEPT !.i1 = next_index(loop.i1, factor), !.i = loop.i + 1,
                                 !.at = "outer"]
    ELSE /\ UNCHANGED <<_u1, _u2, _u3>>
         /\ IF hist.checked
            THEN /\ pc' = "out_of_range"
                 /\ loop' = [loop EXCEPT !.at = "stopped"]
            ELSE /\ pc' = pc
                 /\ loop' = [loop EXCEPT !.i1 = next_index(loop.i1, factor),
                                         !.i = loop.i + 1, !.at = "outer", !.oor = TRUE]

InitLoop ==
    /\ InitTransforms
    /\ shape.J = <<1, 1, 1>>

\* The call and its three assertions.
EnterLoops ==
    /\ pc = "idle"
    /\ \E fn \in {"subsampling", "subsampling_on_average"}, K \in Triples,
          f \in LoopFactors, checked \in BOOLEAN :
          /\ op' = fn
          /\ other' = SourceModel(shape.J, K)
          /\ factor' = f
          /\ hist' = [hist EXCEPT !.checked = checked]
          /\ pc' = IF shape.I[1] <= K[1] /\ shape.I[1] <= K[2] /\ shape.I[1] <= K[3]
                   THEN "running" ELSE "assert_failed"
    /\ loop' = [mode |-> 1, i1 |-> 0, i |-> 0, j |-> 0, num_items_averaged |-> 0,
                tmp_row |-> <<>>, at |-> "outer", oor |-> FALSE]
    /\ UNCHANGED <<model_vars, data_, local_vars, oracle_vars, shape, start_index,
                   end_index, shared, matrix4, iter>>

\* subsampling: i1 < K holds; the body _u.set_row( i, u.get_row( i1 )) and
\* i1 += factor, ++i.
CopyRow ==
    /\ pc = "running" /\ op = "subsampling" /\ loop.at = "outer"
    /\ loop.i1 < other.extents[loop.mode]
    /\ loop.i <= MaxDim
    /\ LoopSetRow(loop.mode, get_row(SourceRows(loop.mode), loop.i1))
    /\ UNCHANGED <<_core, op, data_, local_vars, oracle_vars, transform_vars, matrix4, iter, hist>>

\* subsampling_on_average: i1 < K holds; tmp_row = u.get_row( i1 );
\* num_items_averaged = 1; j = i1 + 1.
StartAverage ==
    /\ pc = "running" /\ op = "subsampling_on_average" /\ loop.at = "outer"
    /\ loop.i1 < other.extents[loop.mode]
    /\ loop.i <= MaxDim
    /\ loop' = [loop EXCEPT !.tmp_row = get_row(SourceRows(loop.mode), loop.i1),
                            !.num_items_averaged = 1, !.j = loop.i1 + 1, !.at = "inner"]
    /\ UNCHANGED <<model_vars, pc, op, data_, local_vars, oracle_vars, transform_vars, matrix4, iter, hist>>

\* The inner condition holds: tmp_row += u.get_row( j ); ++j, ++num_items_averaged.
AddRow ==
    /\ pc = "running" /\ loop.at = "inner"
    /\ inner_condition(loop.j, loop.i1, other.extents[loop.mode], factor)
    /\ loop' = [loop EXCEPT !.tmp_row = add_rows(loop.tmp_row, get_row(SourceRows(loop.mode), loop.j)),
                            !.j = loop.j + 1,
                            !.num_items_averaged = loop.num_items_averaged + 1]
    /\ UNCHANGED <<model_vars, pc, op, data_, local_vars, oracle_vars, transform_vars, matrix4, iter, hist>>

\* The inner condition fails: tmp_row /= num_items_averaged; set_row( i, ... )
\* of tmp_row in mode 1 and of u.get_row( i1 ) in modes 2 and 3; i1 += factor, ++i.
EndAverage ==
    /\ pc = "running" /\ loop.at = "inner"
    /\ ~inner_condition(loop.j, loop.i1, other.extents[loop.mode], factor)
    /\ LET tmp_row == divide_row(loop.tmp_row, loop.num_items_averaged)
       IN  LoopSetRow(loop.mode, IF loop.mode = 1 THEN tmp_row
                                 ELSE get_row(SourceRows(loop.mode), loop.i1))
    /\ UNCHANGED <<_core, op, data_, local_vars, oracle_vars, transform_vars, matrix4, iter, hist>>

\* i1 < K fails in mode 1 or 2: the next mode's loop starts.
NextMode ==
    /\ pc = "running" /\ loop.at = "outer" /\ loop.mode < 3
    /\ ~(loop.i1 < other.extents[loop.mode])
    /\ loop' = [loop EXCEPT !.mode = loop.mode + 1, !.i1 = 0, !.i = 0]
    /\ UNCHANGED <<model_vars, pc, op, data_, local_vars, oracle_vars, transform_vars, matrix4, iter, hist>>

\* i3 < K3 fails: other.get_core( _core ) and the return.
LoopsReturn ==
    /\ pc = "running" /\ loop.at = "outer" /\ loop.mode = 3
    /\ ~(loop.i1 < other.extents[3])
    /\ _core' = get_core(other).value
    /\ shared' = get_core(other).shared
    /\ pc' = IF loop.oor THEN "wrote_outside" ELSE "returned"
    /\ loop' = [loop EXCEPT !.at = "done"]
    /\ UNCHANGED <<_u1, _u2, _u3, op, data_, local_vars, oracle_vars, shape, other, factor,
                   start_index, end_index, matrix4, iter, hist>>

NextLoop ==
    \/ EnterLoops
    \/ CopyRow
    \/ StartAverage
    \/ AddRow
    \/ EndAverage
    \/ NextMode
    \/ LoopsReturn

SpecLoop == InitLoop /\ [][NextLoop]_vars

\* The call runs on one thread without suspension: a step that can be taken is taken.
SpecLoopFair == SpecLoop /\ WF_vars(NextLoop)

\* ------------------------------------------------------------ tensor3 iterators
\* A traversal of a tensor3 of ROWS x COLS x SLICES = R[1] x R[2] x R[3]
\* elements by a tensor3_iterator or a tensor3_const_iterator.  iter holds the
\* tensor's extents (R), the iterator (it), the elements dereferenced so far
\* (seen), the increments made before the end was reached (n) and after (past).
IteratorShapes == (1..MaxDim + 1) \X (1..MaxDim + 1) \X (1..MaxDim + 1)
IteratorKinds == {"tensor3_iterator", "tensor3_const_iterator"}

\* operator== of two iterators, of one tensor or not: tensor3_iterator compares
\* _tensor3 and _matrix_it, tensor3_const_iterator _matrix_it alone.
tensor3_equal(kind, a, b, same_tensor) ==
    IF kind = "tensor3_iterator"
    THEN same_tensor /\ a.matrix_it = b.matrix_it
    ELSE a.matrix_it = b.matrix_it

InitIterator ==
    /\ IteratorIdle
    /\ Matrix4Idle /\ LoopIdle
    /\ pc = "idle"
    /\ op = "none"
    /\ _core = ZeroT /\ _u1 = ZeroT /\ _u2 = ZeroT /\ _u3 = ZeroT
    /\ data_ = ZeroT
    /\ approximated_data = ZeroT
    /\ f_norm = 0 /\ max_f_norm = 0 /\ last_f_norm = 0 /\ improvement = 0 /\ i = 0
    /\ svd_memo = <<>>
    /\ norm_memo = <<>>
    /\ svd_faults = 0
    /\ shape = NoShape /\ other = NoOther /\ factor = 0
    /\ start_index = <<0, 0, 0>> /\ end_index = <<0, 0, 0>>
    /\ shared = {}
    /\ hist = NoHist

\* it = t.begin() on a tensor of some extents.
IteratorBegin ==
    /\ pc = "idle"
    /\ \E kind \in IteratorKinds, R \in IteratorShapes :
          /\ op' = kind
          /\ iter' = [R |-> R, it |-> tensor3_begin(R), seen |-> <<>>, n |-> 0, past |-> 0]
    /\ pc' = "iterating"
    /\ UNCHANGED <<model_vars, data_, local_vars, oracle_vars, transform_vars, matrix4, loop, hist>>

\* it != t.end() holds: *it, then ++it.
IteratorVisit ==
    /\ pc = "iterating"
    /\ ~tensor3_equal(op, iter.it, tensor3_end(iter.R), TRUE)
    /\ iter' = [iter EXCEPT !.seen = Append(@, tensor3_at(SourceCore(iter.R), iter.R, iter.it)),
                            !.it = tensor3_increment(iter.it, iter.R),
                            !.n = @ + 1]
    /\ UNCHANGED <<model_vars, pc, op, data_, local_vars, oracle_vars, transform_vars, matrix4, loop, hist>>

\* it == t.end() holds: ++it all the same.
IteratorPastEnd ==
    /\ pc = "iterating"
    /\ tensor3_equal(op, iter.it, tensor3_end(iter.R), TRUE)
    /\ iter.past < MaxPastEnd
    /\ iter' = [iter EXCEPT !.it = tensor3_increment(iter.it, iter.R), !.past = @ + 1]
    /\ UNCHANGED <<model_vars, pc, op, data_, local_vars, oracle_vars, transform_vars, matrix4, loop, hist>>

NextIterator ==
    \/ IteratorBegin
    \/ IteratorVisit
    \/ IteratorPastEnd

SpecIterator == InitIterator /\ [][NextIterator]_vars

\* -------------------------------------------------------------------- Matrix4
\* A Matrix4 is its ml[16], a function on 0..15; a Vector4 a function on 0..3.
\* The union lays the struct's fields m00, m10, m20, m30, m01, ... over T m[4][4]
\* ("cols") and T ml[16]: the field m<r><c> is m[c][r] is ml[4 * c + r].
field(M, r, c) == M[4 * c + r]
\* getElement( row, col ) { return m[col][row]; }
getElement(M, row, col) == M[4 * col + row]

\* Matrix4( v00, v01, v02, v03, v10, ..., v33 ): m<r><c>( v<r><c> ), from the
\* sixteen arguments in the order written.
Matrix4(v) == [idx \in 0..15 |-> v[4 * (idx % 4) + (idx \div 4) + 1]]
\* Matrix3( ... ).det() of the nine arguments a, b, c / d, e, f / g, h, k.
det3(a, b, c, d, e, f, g, h, k) ==
    a * (e * k - f * h) - b * (d * k - f * g) + c * (d * h - e * g)

\* operator*( const Vector4& vv )
times_vector(M, w) ==
    [k \in 0..3 |-> w[0] * field(M, 0, k) + w[1] * field(M, 1, k)
                    + w[2] * field(M, 2, k) + w[3] * field(M, 3, k)]

\* IDENTITY( 1, 0, 0, 0, 0, 1, 0, 0, 0, 0, 1, 0, 0, 0, 0, 1 )
IDENTITY == Matrix4(<<1, 0, 0, 0,   0, 1, 0, 0,   0, 0, 1, 0,   0, 0, 0, 1>>)

\* operator*( const Matrix4& o ): r.m<r><c> = m<r>0*o.m0<c> + m<r>1*o.m1<c> + ...
times_matrix(M, o) ==
    [idx \in 0..15 |->
        LET r == idx % 4
            c == idx \div 4
        IN  field(M, r, 0) * field(o, 0, c) + field(M, r, 1) * field(o, 1, c)
            + field(M, r, 2) * field(o, 2, c) + field(M, r, 3) * field(o, 3, c)]

\* A T that is not a whole number is the pair of a numerator and a denominator:
\* 1. / det, and an element times it.  (Rounding is left out.)
reciprocal(det) == [num |-> 1, den |-> det]
\* operator*( T scalar ): result.ml[i] = ml[i] * scalar
times_scalar(M, scalar) ==
    [idx \in 0..15 |-> [num |-> M[idx] * scalar.num, den |-> scalar.den]]

\* getMinor( row0, row1, row2, col0, col1, col2 ): m[col][row] is m<row><col>.
getMinor(M, row0, row1, row2, col0, col1, col2) ==
    det3(field(M, row0, col0), field(M, row0, col1), field(M, row0, col2),
         field(M, row1, col0), field(M, row1, col1), field(M, row1, col2),
         field(M, row2, col0), field(M, row2, col1), field(M, row2, col2))

getDeterminant(M) ==
    field(M, 0, 0) * getMinor(M, 1, 2, 3, 1, 2, 3)
    - field(M, 0, 1) * getMinor(M, 1, 2, 3, 0, 2, 3)
    + field(M, 0, 2) * getMinor(M, 1, 2, 3, 0, 1, 3)
    - field(M, 0, 3) * getMinor(M, 1, 2, 3, 0, 1, 2)

getAdjugate(M) ==
    Matrix4(<<    getMinor(M, 1, 2, 3, 1, 2, 3),
              0 - getMinor(M, 0, 2, 3, 1, 2, 3),
                  getMinor(M, 0, 1, 3, 1, 2, 3),
              0 - getMinor(M, 0, 1, 2, 1, 2, 3),
              0 - getMinor(M, 1, 2, 3, 0, 2, 3),
                  getMinor(M, 0, 2, 3, 0, 2, 3),
              0 - getMinor(M, 0, 1, 3, 0, 2, 3),
                  getMinor(M, 0, 1, 2, 0, 2, 3),
                  getMinor(M, 1, 2, 3, 0, 1, 3),
              0 - getMinor(M, 0, 2, 3, 0, 1, 3),
                  getMinor(M, 0, 1, 3, 0, 1, 3),
              0 - getMinor(M, 0, 1, 2, 0, 1, 3),
              0 - getMinor(M, 1, 2, 3, 0, 1, 2),
                  getMinor(M, 0, 2, 3, 0, 1, 2),
              0 - getMinor(M, 0, 1, 3, 0, 1, 2),
                  getMinor(M, 0, 1, 2, 0, 1, 2) >>)

fabs(x) == IF x < 0 THEN 0 - x ELSE x

\* getInverse as it would be if it compared with < instead of <=.
getInverse_BelowLimit(M, result, limit) ==
    IF fabs(getDeterminant(M)) < limit
    THEN [retval |-> FALSE, result |-> result, ml |-> M]
    ELSE [retval |-> TRUE,
          result |-> times_scalar(getAdjugate(M), reciprocal(getDeterminant(M))), ml |-> M]

\* bool getInverse( Matrix4& result, T limit ): what it returns, result and
\* the matrix after the call.
getInverse(M, result, limit) ==
    LET det == getDeterminant(M)
    IN  IF fabs(det) <= limit
        THEN [retval |-> FALSE, result |-> result, ml |-> M]
        ELSE [retval |-> TRUE,
              result |-> times_scalar(getAdjugate(M), reciprocal(det)), ml |-> M]

\* The limits handed to getInverse, and result before the call.
Limits == 0..MaxLimit
PriorResult == [idx \in 0..15 |-> [num |-> 900 + idx, den |-> 1]]

\* The matrices drawn: two matrices, one of them singular, each with one
\* element replaced.
BaseMatrices ==
    { Matrix4(<<1, 2, 0, 1,   0, 1, 3, 0,   2, 0, 1, 1,   1, 1, 0, 2>>),
      Matrix4(<<1, 2, 3, 4,   2, 4, 6, 8,   0, 1, 0, 2,   3, 0, 1, 1>>) }
Matrices ==
    { [B EXCEPT ![p] = x] : B \in BaseMatrices, p \in 0..15, x \in (0 - MaxEntry)..MaxEntry }
Vectors == [0..3 -> 0..MaxEntry]

InitMatrix4 ==
    /\ matrix4 \in [ml : Matrices, vv : {<<>>}, product : {<<>>}, limit : {0},
                    result : {<<>>}, retval : {FALSE}]
    /\ pc = "idle"
    /\ op = "none"
    /\ _core = ZeroT /\ _u1 = ZeroT /\ _u2 = ZeroT /\ _u3 = ZeroT
    /\ data_ = ZeroT
    /\ approximated_data = ZeroT
    /\ f_norm = 0 /\ max_f_norm = 0 /\ last_f_norm = 0 /\ improvement = 0 /\ i = 0
    /\ svd_memo = <<>>
    /\ norm_memo = <<>>
    /\ svd_faults = 0
    /\ shape = NoShape /\ other = NoOther /\ factor = 0
    /\ start_index = <<0, 0, 0>> /\ end_index = <<0, 0, 0>>
    /\ shared = {}
    /\ IteratorIdle /\ LoopIdle
    /\ hist = NoHist

\* matrix * vv
TimesVector ==
    /\ pc = "idle"
    /\ \E w \in Vectors :
          matrix4' = [matrix4 EXCEPT !.vv = w, !.product = times_vector(matrix4.ml, w)]
    /\ pc' = "returned"
    /\ op' = "operator*"
    /\ UNCHANGED <<model_vars, data_, local_vars, oracle_vars, transform_vars, iter, loop, hist>>

\* matrix.getInverse( result, limit )
GetInverse ==
    /\ pc = "idle"
    /\ \E lim \in Limits :
          LET r == getInverse(matrix4.ml, PriorResult, lim)
          IN  matrix4' = [matrix4 EXCEPT !.ml = r.ml, !.limit = lim,
                                         !.result = r.result, !.retval = r.retval]
    /\ pc' = "returned"
    /\ op' = "getInverse"
    /\ UNCHANGED <<model_vars, data_, local_vars, oracle_vars, transform_vars, iter, loop, hist>>

NextMatrix4 ==
    \/ TimesVector
    \/ GetInverse

SpecMatrix4 == InitMatrix4 /\ [][NextMatrix4]_vars

\* ---------------------------------------------------------------- the claims
BodyPcs == {"opt1", "opt2", "opt3", "derive"}
AfterLoopPcs == {"final_derive", "als_derive", "returned"}
NormOfData == IF data_ = ZeroT THEN 0 ELSE data_[2]
NumRecon == Len(hist.recon_norms)

\* C1: the refinement loop body of hoii is entered at most max_iterations (3)
\* times whatever norms the reconstructions have: i counts the bodies
\* completed, starting at 0 and growing by one per body, and a body is entered
\* only with i < 3.
C1_LoopBodyAtMostThreeTimes ==
    /\ hist.body_count <= max_iterations
    /\ pc \in BodyPcs => (i < max_iterations /\ hist.body_count = i + 1)
    /\ pc \in {"loop_test"} \cup AfterLoopPcs => hist.body_count = i

\* C1 witness: a call that returned after three bodies, stopped by the cap alone.
C1_Witness ==
    pc = "returned" /\ hist.body_count = 3 /\ improvement > min_improvement

\* C2: a body is running only if the improvement last computed exceeds 0.1 and
\* fewer than 3 bodies ran before it; once the loop has been left, either the
\* improvement last computed is <= 0.1 or exactly 3 bodies have run.
C2_LoopGuard ==
    /\ pc \in BodyPcs =>
          (improvement > min_improvement /\ hist.body_count - 1 < max_iterations)
    /\ pc \in AfterLoopPcs =>
          (improvement <= min_improvement \/ hist.body_count = max_iterations)

\* C2 witness: the loop left after one body because the improvement was exactly 0.1.
C2_Witness ==
    pc = "returned" /\ hist.body_count = 1 /\ improvement = min_improvement

\* C3 as claimed: every improvement compared with the threshold is the newest
\* reconstruction's norm minus the previous reconstruction's norm.  Before the
\* first iteration one reconstruction exists; "previous" is then read either as
\* nothing (norm 0) or as last_f_norm (that same reconstruction).
C3_Original ==
    pc = "loop_test" =>
        LET h == hist.recon_norms
            previous == IF NumRecon >= 2 THEN {h[NumRecon - 1]} ELSE {0, h[1]}
        IN  \E p \in previous : improvement = h[NumRecon] - p

\* C3 amended: the improvement compared after an iteration is the newest
\* reconstruction's norm minus the previous one's; the improvement compared
\* before the first iteration is the norm of the data minus the norm of the
\* first reconstruction.
C3_ImprovementValues ==
    pc = "loop_test" =>
        LET h == hist.recon_norms IN
        IF NumRecon >= 2
        THEN improvement = h[NumRecon] - h[NumRecon - 1]
        ELSE improvement = NormOfData - h[1]

\* C3 witness: a comparison after a second iteration that gained norm.
C3_Witness ==
    pc = "loop_test" /\ NumRecon = 3 /\ improvement > 0

\* C4 as claimed: a call of decomposition on the same data with the same SVD and
\* norm results runs as many iterations and ends with the same core and bases
\* as the call before it, although the model held another core and other bases
\* when it started.
C4_Original ==
    (pc = "returned" /\ hist.calls = 1) =>
        /\ hist.body_count = hist.prev_run.iterations
        /\ _core = hist.prev_run.core
        /\ <<_u1, _u2, _u3>> = hist.prev_run.bases

PinvOf(u) == transpose(compute_pseudoinverse(u))
BasisFrom(unfolding) == get_sub_matrix(svd_overwrite(unfolding))

\* C5: in an iteration the new u1 is made from data and the u2, u3 the
\* iteration started with; the new u2 from data, the new u1 and the old u3;
\* the new u3 from data and the new u1 and u2 (or is zero where the SVD failed);
\* the modes are taken in the order 1, 2, 3.
C5_ModeOrder ==
    LET s == hist.iter_start
        e1 == BasisFrom(lateral_matricization(
                 multiply_horizontal(multiply_frontal(data_, PinvOf(s[2])), PinvOf(s[3]))))
        e2 == BasisFrom(frontal_matricization(
                 multiply_horizontal(multiply_lateral(data_, PinvOf(_u1)), PinvOf(s[3]))))
        e3 == BasisFrom(horizontal_matricization(
                 multiply_frontal(multiply_lateral(data_, PinvOf(_u1)), PinvOf(_u2))))
    IN  /\ pc = "opt1" => <<_u1, _u2, _u3>> = s
        /\ pc = "opt2" => /\ _u1 \in {ZeroT, e1} /\ _u2 = s[2] /\ _u3 = s[3]
                          /\ hist.svd_mode = 1
        /\ pc = "opt3" => /\ _u1 \in {ZeroT, e1} /\ _u2 \in {ZeroT, e2} /\ _u3 = s[3]
                          /\ hist.svd_mode = 2
        /\ pc = "derive" => /\ _u1 \in {ZeroT, e1} /\ _u2 \in {ZeroT, e2}
                            /\ _u3 \in {ZeroT, e3}
                            /\ hist.svd_mode = 3

\* C5 witness: the end of a second iteration in which every mode's SVD succeeded.
C5_Witness ==
    /\ pc = "derive" /\ hist.body_count = 2
    /\ _u1 # ZeroT /\ _u2 # ZeroT /\ _u3 # ZeroT
    /\ hist.iter_start[1] # ZeroT

\* C6: when hoii or decomposition has returned, the core is the orthogonal-bases
\* projection of data on the bases now stored, the bases are those of the last
\* core derivation, and the derivation tucker_als adds left the core as hoii
\* had left it.
C6_CoreMatchesBases ==
    pc = "returned" =>
        /\ _core = full_tensor3_matrix_multiplication(
                      data_, transpose(_u1), transpose(_u2), transpose(_u3))
        /\ hist.derived_with = <<_u1, _u2, _u3>>
        /\ _core = hist.hoii_core

\* C6 witness: decomposition returned after two iterations with a non-zero core.
C6_Witness ==
    pc = "returned" /\ op = "decomposition" /\ hist.body_count = 2 /\ _core # ZeroT

LastBasis == CASE hist.svd_mode = 1 -> _u1
               [] hist.svd_mode = 2 -> _u2
               [] OTHER -> _u3
LastUnfolding == CASE hist.svd_mode = 1 -> lateral_matricization(hist.svd_input)
                   [] hist.svd_mode = 2 -> frontal_matricization(hist.svd_input)
                   [] OTHER -> horizontal_matricization(hist.svd_input)

\* C7: after a hosvd_mode_k call the basis k is the zero matrix exactly when the
\* SVD reported failure, and otherwise the leading sub-matrix of the unfolding
\* the SVD overwrote; either way the caller goes on with the next mode.
C7_ZeroExactlyOnFailure ==
    hist.svd_calls > 0 =>
        /\ (LastBasis = ZeroT) <=> ~hist.svd_ok
        /\ hist.svd_ok => LastBasis = get_sub_matrix(svd_overwrite(LastUnfolding))
        /\ hist.svd_mode = 1 => pc \in {"hosvd2", "opt2"}
        /\ hist.svd_mode = 2 => pc \in {"hosvd3", "opt3"}
        /\ hist.svd_mode = 3 =>
               pc \in {"init_norms", "derive", "loop_test", "opt1"} \cup AfterLoopPcs

\* C7 witness: inside the loop the SVD of a non-zero projection failed for
\* mode 1 and hoii stands before mode 2.
C7_Witness ==
    /\ pc = "opt2" /\ hist.svd_mode = 1 /\ ~hist.svd_ok
    /\ hist.svd_input # ZeroT

\* C8: a call on the all-zero array enters no iteration and returns with all
\* three bases zero.
C8_ZeroDataZeroBases ==
    data_ = ZeroT =>
        /\ hist.body_count = 0
        /\ pc \in {"init_norms", "loop_test"} \cup AfterLoopPcs =>
               (_u1 = ZeroT /\ _u2 = ZeroT /\ _u3 = ZeroT)

\* C8 witness: decomposition of the all-zero array has returned after its three
\* SVD calls, with zero bases and a zero core.
C8_Witness ==
    /\ pc = "returned" /\ data_ = ZeroT /\ op = "decomposition"
    /\ _u1 = ZeroT /\ _u2 = ZeroT /\ _u3 = ZeroT /\ _core = ZeroT
    /\ hist.svd_calls = 3

\* C9: reduce_ranks from ranks K with J_k <= K_k for every mode returns with
\* basis k equal to the first J_k columns of the source's basis k in all I_k
\* rows and with core(j1,j2,j3) equal to the source's for all j1 < J1, j2 < J2,
\* j3 < J3; with some J_k > K_k an assertion fails and core and bases are as
\* they were before the call.
C9_ReduceRanks ==
    (op = "reduce_ranks" /\ pc # "idle") =>
        LET J == shape.J
            I == shape.I
            K == other.ranks
        IN  IF \A k \in 1..3 : J[k] <= K[k]
            THEN /\ pc = "returned"
                 /\ \A r \in 0..I[1] - 1, c \in 0..J[1] - 1 : _u1[r][c] = other.u1[r][c]
                 /\ \A r \in 0..I[2] - 1, c \in 0..J[2] - 1 : _u2[r][c] = other.u2[r][c]
                 /\ \A r \in 0..I[3] - 1, c \in 0..J[3] - 1 : _u3[r][c] = other.u3[r][c]
                 /\ \A j1 \in 0..J[1] - 1, j2 \in 0..J[2] - 1, j3 \in 0..J[3] - 1 :
                        _core[j1][j2][j3] = other.core[j1][j2][j3]
            ELSE /\ pc = "assert_failed"
                 /\ This = PriorModel(J, I)

\* C9 witness: reduce_ranks returned on a target of smaller rank in every mode
\* and of more than one row and column in mode 1.
C9_Witness ==
    /\ op = "reduce_ranks" /\ pc = "returned"
    /\ \A k \in 1..3 : shape.J[k] < other.ranks[k]
    /\ shape.I[1] > 1

\* C10 as claimed, for the calls that meet the transform's stated precondition
\* (no target extent exceeds the source's, I_k <= K_k) and whose target has
\* every row the claim names (I_k >= ceil(K_k / factor)): after subsampling
\* with a factor >= 1, for every mode k and every i with i * factor < K_k, row i
\* of basis k is row i * factor of the source's basis k, and the core equals
\* the source's core.
C10_Original ==
    LET K == other.extents
        I == shape.I
        RowsNamed(Kk) == (Kk + factor - 1) \div factor
        RowsCopied(u, src, Kk) ==
            \A n \in 0..Kk - 1 : n * factor < Kk => u[n] = src[n * factor]
    IN  (/\ op = "subsampling" /\ pc # "idle"
         /\ factor >= 1
         /\ \A k \in 1..3 : I[k] <= K[k] /\ RowsNamed(K[k]) <= I[k])
        => /\ RowsCopied(_u1, other.u1, K[1])
           /\ RowsCopied(_u2, other.u2, K[2])
           /\ RowsCopied(_u3, other.u3, K[3])
           /\ _core = other.core

\* Sum of column c of the rows lo .. hi - 1 of src.
RECURSIVE SumOfRows(_, _, _, _)
SumOfRows(src, c, lo, hi) ==
    IF lo >= hi THEN 0 ELSE src[lo][c] + SumOfRows(src, c, lo + 1, hi)
\* The average of the rows [n * factor, min(n * factor + factor, Kk)) of src,
\* divided by the number of rows in that block.
BlockEnd(n, Kk) == IF n * factor + factor < Kk THEN n * factor + factor ELSE Kk
BlockMean(src, n, Kk) ==
    [c \in DOMAIN src[0] |->
        SumOfRows(src, c, n * factor, BlockEnd(n, Kk)) \div (BlockEnd(n, Kk) - n * factor)]
\* The target has every row a stride of factor over Kk source rows names.
RowsFit(Ik, Kk) == (Kk + factor - 1) \div factor <= Ik

\* C11 as claimed, for the calls that meet the transform's stated precondition
\* (I_k <= K_k for every mode) and whose target has every row the claim names:
\* after subsampling_on_average with a factor >= 1, row i of basis 1 is the
\* average of the source rows [i * factor, min(i * factor + factor, K1)),
\* divided by the number of rows summed, for every i with i * factor < K1, and
\* the core equals the source's core.
C11_Original ==
    LET K == other.extents
        I == shape.I
    IN  (/\ op = "subsampling_on_average" /\ pc # "idle"
         /\ factor >= 1
         /\ \A k \in 1..3 : I[k] <= K[k] /\ RowsFit(I[k], K[k]))
        => /\ \A n \in 0..K[1] - 1 :
                  n * factor < K[1] => _u1[n] = BlockMean(other.u1, n, K[1])
           /\ _core = other.core

\* C12: subsampling_on_average ends as subsampling does on the same target,
\* source, factor and build, with the same basis 2 and basis 3: their rows are
\* the unaveraged source rows i * factor; where it returns, the rows of basis 1
\* are the block averages.  (A run that wrote outside a matrix has no defined
\* result and is left out.)
C12_Modes23AsNearest ==
    (op = "subsampling_on_average" /\ pc \in {"returned", "assert_failed", "out_of_range"}) =>
        LET K == other.extents
            nearest == subsampling(shape.I, K, PriorModel(shape.J, shape.I),
                                   other, factor, hist.checked)
        IN  /\ pc = nearest.status
            /\ _u2 = nearest.u2
            /\ _u3 = nearest.u3
            /\ pc = "returned" =>
                  /\ \A n \in 0..K[1] - 1 :
                        n * factor < K[1] => _u1[n] = BlockMean(other.u1, n, K[1])
                  /\ \A n \in 0..K[2] - 1 :
                        n * factor < K[2] => _u2[n] = other.u2[n * factor]
                  /\ \A n \in 0..K[3] - 1 :
                        n * factor < K[3] => _u3[n] = other.u3[n * factor]

\* C12 witness: subsampling_on_average returned with factor 2 from a source
\* of two rows in every mode; row 0 of basis 1 is the average of two rows and
\* no source row, rows 0 of bases 2 and 3 are source rows 0 and not the averages.
C12_Witness ==
    /\ op = "subsampling_on_average" /\ pc = "returned" /\ factor = 2
    /\ other.extents = <<2, 2, 2>>
    /\ _u1[0] = BlockMean(other.u1, 0, 2) /\ _u1[0] # other.u1[0]
    /\ _u2[0] = other.u2[0] /\ _u2[0] # BlockMean(other.u2, 0, 2)
    /\ _u3[0] = other.u3[0] /\ _u3[0] # BlockMean(other.u3, 0, 2)

\* C13 as claimed: region_of_interest called with 0 <= start_k < end_k <= K_k
\* and end_k - start_k = I_k in every mode returns with row i of basis k equal
\* to row start_k + i of the source's basis k for every i < end_k - start_k
\* and with the source's core.
C13_Original ==
    LET K == other.extents
        I == shape.I
        RowsCopied(u, src, k) ==
            \A n \in 0..I[k] - 1 : u[n] = src[start_index[k] + n]
    IN  (/\ op = "region_of_interest" /\ pc # "idle"
         /\ \A k \in 1..3 : /\ 0 <= start_index[k] /\ start_index[k] < end_index[k]
                            /\ end_index[k] <= K[k]
                            /\ end_index[k] - start_index[k] = I[k])
        => /\ pc = "returned"
           /\ RowsCopied(_u1, other.u1, 1)
           /\ RowsCopied(_u2, other.u2, 2)
           /\ RowsCopied(_u3, other.u3, 3)
           /\ _core = other.core

\* C14 as claimed: subsampling, subsampling_on_average and region_of_interest
\* called on a target with some extent I_k greater than the source's K_k end
\* in a failed assertion with core and bases as they were before the call.
C14_Original ==
    (/\ op \in {"subsampling", "subsampling_on_average", "region_of_interest"}
     /\ pc # "idle"
     /\ \E k \in 1..3 : shape.I[k] > other.extents[k])
    => /\ pc = "assert_failed"
       /\ This = PriorModel(shape.J, shape.I)

\* The number of elements of a model of ranks J and extents I, and where its
\* components start in the exported order.
NumElements(J, I) == I[1] * J[1] + I[2] * J[2] + I[3] * J[3] + J[1] * J[2] * J[3]
StartOfU2(J, I) == I[1] * J[1]
StartOfU3(J, I) == I[1] * J[1] + I[2] * J[2]
StartOfCore(J, I) == I[1] * J[1] + I[2] * J[2] + I[3] * J[3]
\* seq holds, from index base (counted from 0), the elements of model M: basis
\* 1, basis 2, basis 3 (each column after column), then the core (frontal slice
\* after frontal slice, each column after column).
HoldsModelAt(seq, base, M, J, I) ==
    /\ \A r \in 0..I[1] - 1, c \in 0..J[1] - 1 :
          seq[base + c * I[1] + r + 1] = M.u1[r][c]
    /\ \A r \in 0..I[2] - 1, c \in 0..J[2] - 1 :
          seq[base + StartOfU2(J, I) + c * I[2] + r + 1] = M.u2[r][c]
    /\ \A r \in 0..I[3] - 1, c \in 0..J[3] - 1 :
          seq[base + StartOfU3(J, I) + c * I[3] + r + 1] = M.u3[r][c]
    /\ \A a \in 0..J[1] - 1, b \in 0..J[2] - 1, c \in 0..J[3] - 1 :
          seq[base + StartOfCore(J, I) + c * J[1] * J[2] + b * J[1] + a + 1] = M.core[a][b][c]

\* C15: a call of export_to adds exactly I1*J1 + I2*J2 + I3*J3 + J1*J2*J3
\* elements to the vector: the elements of basis 1, then of basis 2, then of
\* basis 3, then of the core, each in its container's iteration order; the
\* exporting model (and the other one) is as it was.
C15_ExportOrder ==
    [][ hist'.exports = hist.exports + 1 =>
          LET M == IF hist'.exporter = "this" THEN This ELSE other
          IN  /\ Len(data_') = Len(data_) + NumElements(shape.J, shape.I)
              /\ HoldsModelAt(data_', Len(data_), M, shape.J, shape.I)
              /\ UNCHANGED <<model_vars, other>> ]_vars

\* C15 witness: the other model, with bases of two rows and a core of more
\* than one slice, column and row, was exported into the empty vector.
C15_Witness ==
    /\ op = "export_to" /\ hist.exports = 1 /\ hist.exporter = "other"
    /\ shape.I[1] = 2 /\ shape.J = <<2, 2, 2>>
    /\ Len(data_) = NumElements(shape.J, shape.I)
    /\ data_[2] = other.u1[1][0]
    /\ data_[Len(data_)] = other.core[1][1][1]

\* C16 as claimed: import_from was handed the whole vector into which the
\* other model M was exported last; it returned and this model's core and
\* bases equal M's.
C16_Original ==
    (op = "import_from" /\ hist.exporter = "other" /\ hist.whole) =>
        /\ pc = "returned"
        /\ This = [core |-> other.core, u1 |-> other.u1, u2 |-> other.u2, u3 |-> other.u3]

\* C16 amended: import_from was handed the whole vector into which the other
\* model M was exported when the vector was empty; it returned and this
\* model's core and bases equal M's, whatever this model held before.
C16_RoundTripFromEmpty ==
    (op = "import_from" /\ hist.exports = 1 /\ hist.exporter = "other" /\ hist.whole) =>
        /\ pc = "returned"
        /\ This = [core |-> other.core, u1 |-> other.u1, u2 |-> other.u2, u3 |-> other.u3]

\* C16 witness: the round trip of a model with non-square bases and a core of
\* several slices onto a model that held other values.
C16_Witness ==
    /\ op = "import_from" /\ hist.exports = 1 /\ hist.exporter = "other" /\ hist.whole
    /\ shape.I[1] = 2 /\ shape.J = <<1, 2, 2>>
    /\ pc = "returned"
    /\ _u2 = other.u2 /\ _u2 # PriorModel(shape.J, shape.I).u2
    /\ _core = other.core

\* C17: import_from handed a vector of fewer than N elements ends in the
\* out-of-range failure; handed N or more it returns with every element of
\* basis 1, basis 2, basis 3 and the core equal to the vector's element at its
\* place among the indices 0 .. N-1, whatever follows index N-1.
C17_ImportReadsFirstN ==
    op = "import_from" =>
        LET N == NumElements(shape.J, shape.I)
        IN  /\ Len(data_) < N => pc = "out_of_range"
            /\ Len(data_) >= N =>
                  /\ pc = "returned"
                  /\ HoldsModelAt(data_, 0, This, shape.J, shape.I)

\* C17 witness: import_from returned on a vector holding more than the N
\* elements of a model with a core of several rows and slices.
C17_Witness ==
    /\ op = "import_from" /\ pc = "returned"
    /\ Len(data_) > NumElements(shape.J, shape.I)
    /\ shape.J = <<2, 1, 2>>

C19_HosvdFromDataAlone ==
    [][ /\ pc = "hosvd1" =>
              /\ _u1' \in {ZeroT, BasisFrom(lateral_matricization(data_))}
              /\ UNCHANGED <<_core, _u2, _u3>>
        /\ pc = "hosvd2" =>
              /\ _u2' \in {ZeroT, BasisFrom(frontal_matricization(data_))}
              /\ UNCHANGED <<_core, _u1, _u3>>
        /\ pc = "hosvd3" =>
              /\ _u3' \in {ZeroT, BasisFrom(horizontal_matricization(data_))}
              /\ UNCHANGED <<_core, _u1, _u2>> ]_vars

\* C19 witness: hosvd has written three non-zero bases, each made from its own
\* unfolding of data, on a model that still holds the core it held before the call.
C19_Witness ==
    /\ pc = "init_norms" /\ hist.svd_calls = 3
    /\ _core = <<"prior", "core">>
    /\ _u1 = BasisFrom(lateral_matricization(data_))
    /\ _u2 = BasisFrom(frontal_matricization(data_))
    /\ _u3 = BasisFrom(horizontal_matricization(data_))

\* C21 as claimed: the Vector4 returned by operator*( vv ) has, for every i in
\* 0..3, result[i] = the sum over j of getElement( i, j ) * vv[j].
C21_Original ==
    (op = "operator*" /\ pc = "returned") =>
        \A k \in 0..3 :
            matrix4.product[k] =
                getElement(matrix4.ml, k, 0) * matrix4.vv[0]
                + getElement(matrix4.ml, k, 1) * matrix4.vv[1]
                + getElement(matrix4.ml, k, 2) * matrix4.vv[2]
                + getElement(matrix4.ml, k, 3) * matrix4.vv[3]

\* C22 as claimed: whenever the assertions of subsampling or of
\* subsampling_on_average pass, the rows written in basis k are exactly the
\* rows 0 .. I_k - 1: no row index beyond the target is used, and no row of
\* the target is left holding what it held before the call.
C22_Original ==
    LET I == shape.I
        prior == PriorModel(shape.J, shape.I)
    IN  (/\ op \in {"subsampling", "subsampling_on_average"}
         /\ pc \notin {"idle", "assert_failed"})
        => /\ pc = "returned"
           /\ \A r \in 0..I[1] - 1 : _u1[r] # prior.u1[r]
           /\ \A r \in 0..I[2] - 1 : _u2[r] # prior.u2[r]
           /\ \A r \in 0..I[3] - 1 : _u3[r] # prior.u3[r]

\* C23 as claimed: whenever the nine assertions of region_of_interest pass,
\* every source row read in mode k is a row of the source (start_k >= 0 and
\* end_k <= K_k) and every target row written is a row of the target: the
\* number of rows copied, end_k - start_k, is at most I_k, and the call
\* returns without having used a row index out of range.
C23_Original ==
    (op = "region_of_interest" /\ pc \notin {"idle", "assert_failed"}) =>
        /\ \A k \in 1..3 : /\ 0 <= start_index[k]
                           /\ end_index[k] <= other.extents[k]
                           /\ end_index[k] - start_index[k] <= shape.I[k]
        /\ pc = "returned"

HoldsFirst(seq, L, M, P, J, I) ==
    LET Item(pos, new, old) == IF pos < L THEN new = seq[pos + 1] ELSE new = old
    IN  /\ \A r \in 0..I[1] - 1, c \in 0..J[1] - 1 :
              Item(c * I[1] + r, M.u1[r][c], P.u1[r][c])
        /\ \A r \in 0..I[2] - 1, c \in 0..J[2] - 1 :
              Item(StartOfU2(J, I) + c * I[2] + r, M.u2[r][c], P.u2[r][c])
        /\ \A r \in 0..I[3] - 1, c \in 0..J[3] - 1 :
              Item(StartOfU3(J, I) + c * I[3] + r, M.u3[r][c], P.u3[r][c])
        /\ \A a \in 0..J[1] - 1, b \in 0..J[2] - 1, c \in 0..J[3] - 1 :
              Item(StartOfCore(J, I) + c * J[1] * J[2] + b * J[1] + a,
                   M.core[a][b][c], P.core[a][b][c])

\* C25: import_from handed a vector of L < N elements ends in the out-of-range
\* failure with the first L elements of the model, in the exported order
\* (basis 1, basis 2, basis 3, core), equal to the vector's elements and every
\* later element as it was before the call.
C25_ImportNotAtomic ==
    (op = "import_from" /\ Len(data_) < NumElements(shape.J, shape.I)) =>
        /\ pc = "out_of_range"
        /\ HoldsFirst(data_, Len(data_), This, PriorModel(shape.J, shape.I), shape.J, shape.I)

\* C25 witness: import_from failed on a vector that ends within basis 2 of
\* another model's export: basis 1 and the first element of basis 2 were
\* overwritten, the second element of basis 2 and the core were not.
C25_Witness ==
    /\ op = "import_from" /\ pc = "out_of_range" /\ hist.exporter = "other"
    /\ shape.I[1] = 2 /\ shape.J = <<1, 2, 2>>
    /\ Len(data_) = StartOfU2(shape.J, shape.I) + 1
    /\ _u1 = other.u1
    /\ _u2[0][0] = other.u2[0][0]
    /\ _u2[1][0] = PriorModel(shape.J, shape.I).u2[1][0]
    /\ _core = PriorModel(shape.J, shape.I).core

\* C26: export_to appends: every element the vector held stays where it was
\* and exactly N = I1*J1 + I2*J2 + I3*J3 + J1*J2*J3 elements are added after
\* them; so import_from, handed a vector that one or more export_to calls
\* filled from empty, returns with the model exported first, not the one
\* exported last.
C26_ExportAppends ==
    /\ [][hist'.exports = hist.exports + 1 =>
            /\ Len(data_') = Len(data_) + NumElements(shape.J, shape.I)
            /\ SubSeq(data_', 1, Len(data_)) = data_]_vars
    /\ []((op = "import_from" /\ Len(data_) >= NumElements(shape.J, shape.I)) =>
            /\ pc = "returned"
            /\ This = IF hist.first_exporter = "other"
                      THEN [core |-> other.core, u1 |-> other.u1, u2 |-> other.u2, u3 |-> other.u3]
                      ELSE PriorModel(shape.J, shape.I))

\* C26 witness: the other model was exported, then this model, into the same
\* vector; import_from, handed all of it, left this model equal to the other
\* one, which it was not before.
C26_Witness ==
    /\ op = "import_from" /\ pc = "returned" /\ hist.whole
    /\ hist.exports = 2 /\ hist.first_exporter = "other" /\ hist.exporter = "this"
    /\ Len(data_) = 2 * NumElements(shape.J, shape.I)
    /\ _u1 = other.u1 /\ _u1 # PriorModel(shape.J, shape.I).u1
    /\ _core = other.core

\* C27: an iterator over a tensor of ROWS x COLS x SLICES elements, started at
\* begin, equals the end iterator after exactly ROWS*COLS*SLICES increments and
\* not before; before that, after n increments, it stands on element
\* n mod (ROWS*COLS) of frontal slice n div (ROWS*COLS), which the n-th
\* dereference yields, so the elements seen are the tensor's, each once, slice
\* after slice; it never rests on the end of a frontal slice that is not the
\* last; and increments made at the end leave it equal to end.
C27_IteratorTraversal ==
    pc = "iterating" =>
        LET R == iter.R
            RC == R[1] * R[2]
            N == RC * R[3]
            t == SourceCore(R)
            Element(p, k) == t[p % R[1]][p \div R[1]][k]
            AtEnd == tensor3_equal(op, iter.it, tensor3_end(R), TRUE)
        IN  /\ AtEnd <=> iter.n = N
            /\ iter.n <= N
            /\ iter.n < N =>
                  /\ iter.it.matrix_it = [slice |-> iter.n \div RC, step |-> iter.n % RC]
                  /\ tensor3_at(t, R, iter.it) = Element(iter.n % RC, iter.n \div RC)
            /\ Len(iter.seen) = iter.n
            /\ \A m \in 0..iter.n - 1 : iter.seen[m + 1] = Element(m % RC, m \div RC)
            /\ Cardinality({iter.seen[m] : m \in 1..iter.n}) = iter.n
            /\ ~(iter.it.matrix_it.step = RC /\ iter.it.matrix_it.slice < R[3] - 1)
            /\ iter.past > 0 => AtEnd

\* C27 witness: a tensor3_const_iterator over a tensor of 2 x 3 x 2 elements
\* has been incremented twelve times and then twice more: it went from the
\* first frontal slice to the second and equals end.
C27_Witness ==
    /\ pc = "iterating" /\ op = "tensor3_const_iterator"
    /\ iter.R = <<2, 3, 2>>
    /\ iter.n = 12 /\ iter.past = MaxPastEnd
    /\ iter.seen[7] = SourceCore(iter.R)[0][0][1]
    /\ iter.it.matrix_it = tensor3_end(iter.R).matrix_it
    /\ iter.it.matrix_index = 1

\* C28: getInverse( result, limit ) returns false exactly when
\* |getDeterminant()| <= limit, and then result is what it was; otherwise it
\* returns true and result is getAdjugate() with every element times 1/det,
\* where the matrix times its getAdjugate() is getDeterminant() times
\* IDENTITY (so the matrix times result is IDENTITY); the matrix is as it was.
C28_GetInverse ==
    /\ [][op' = "getInverse" => matrix4'.ml = matrix4.ml]_vars
    /\ [](op = "getInverse" =>
            LET M == matrix4.ml
                det == getDeterminant(M)
                adj == getAdjugate(M)
            IN  /\ matrix4.retval = FALSE <=> fabs(det) <= matrix4.limit
                /\ matrix4.retval = FALSE => matrix4.result = PriorResult
                /\ matrix4.retval = TRUE =>
                      /\ \A idx \in 0..15 :
                            matrix4.result[idx] = [num |-> adj[idx], den |-> det]
                      /\ times_matrix(M, adj) = [idx \in 0..15 |-> det * IDENTITY[idx]]
                      /\ \A r \in 0..3, c \in 0..3 :
                            field(M, r, 0) * field(matrix4.result, 0, c).num
                            + field(M, r, 1) * field(matrix4.result, 1, c).num
                            + field(M, r, 2) * field(matrix4.result, 2, c).num
                            + field(M, r, 3) * field(matrix4.result, 3, c).num
                            = (IF r = c THEN 1 ELSE 0) * field(matrix4.result, r, c).den)

\* C28 witness: getInverse returned true on a matrix that is not symmetric,
\* with a determinant beyond a limit above 0, and result holds the quotients;
\* and the adjugate is not the matrix of cofactors.
C28_Witness ==
    /\ op = "getInverse" /\ matrix4.retval = TRUE
    /\ matrix4.limit = 1
    /\ fabs(getDeterminant(matrix4.ml)) > 1
    /\ field(matrix4.ml, 0, 1) # field(matrix4.ml, 1, 0)
    /\ matrix4.result # PriorResult
    /\ field(matrix4.result, 0, 1).num # field(matrix4.result, 1, 0).num

====
